---- MODULE Spec2Model ----
(***************************************************************************)
(* Model of the thc chess rules engine (src/src/thc/ChessRules.cpp): the   *)
(* position (board, side to move, detail record, detail stack, history,    *)
(* counters), the move generator, PushMove/PopMove, the legality filter,   *)
(* terminal evaluation, the draw rules and UCI move resolution.            *)
(* A second part models the Screen object (src/unnamed/part_001): the      *)
(* caller that renders and destroys it, and its display-update thread.     *)
(***************************************************************************)
EXTENDS Integers, Sequences, FiniteSets, TLC

(***************************************************************************)
(* Bounds of the model.                                                    *)
(***************************************************************************)
\* longest history explored in the positions played with every move
MaxPlies == 2
\* deepest nesting of PushMove calls not yet undone by the caller
MaxPush == 2
\* longest history explored in the scripted games (knight shuffle)
MaxGame == 101
\* squares of a layout the caller writes
MaxEdits == 2
\* calls of Screen::render made by the owner of the Screen
MaxRenders == 3
\* the views draw one of the images 0 (nothing) .. MaxFrame
MaxFrame == 1
\* largest full-move counter a game taken up midway starts with
MaxStartCount == 3

(***************************************************************************)
(* Squares: a8 = 0, b8 = 1, ... h1 = 63 (row-major from the top left).     *)
(***************************************************************************)
Squares64 == 0..63
SQUARE_INVALID == 64

Files == <<"a", "b", "c", "d", "e", "f", "g", "h">>
Ranks == <<"8", "7", "6", "5", "4", "3", "2", "1">>

\* 0-based column (a = 0) and row (rank 8 = 0) of a square
Col(sq) == sq % 8
Row(sq) == sq \div 8

FILE(sq) == Files[Col(sq) + 1]
RANK(sq) == Ranks[Row(sq) + 1]

IndexOf(seq, x) == CHOOSE i \in 1..Len(seq) : seq[i] = x

\* the elements of a sequence
SeqToSet(seq) == {seq[i] : i \in 1..Len(seq)}

SQ(f, r) == (IndexOf(Ranks, r) - 1) * 8 + (IndexOf(Files, f) - 1)

NORTH(sq) == sq - 8
SOUTH(sq) == sq + 8
NE(sq) == sq - 7
NW(sq) == sq - 9
SE(sq) == sq + 9
SW(sq) == sq + 7

a8 == SQ("a", "8")
b8 == SQ("b", "8")
c8 == SQ("c", "8")
d8 == SQ("d", "8")
e8 == SQ("e", "8")
f8 == SQ("f", "8")
g8 == SQ("g", "8")
h8 == SQ("h", "8")
a6 == SQ("a", "6")
b6 == SQ("b", "6")
g6 == SQ("g", "6")
h6 == SQ("h", "6")
a3 == SQ("a", "3")
b3 == SQ("b", "3")
g3 == SQ("g", "3")
h3 == SQ("h", "3")
a1 == SQ("a", "1")
b1 == SQ("b", "1")
c1 == SQ("c", "1")
d1 == SQ("d", "1")
e1 == SQ("e", "1")
f1 == SQ("f", "1")
g1 == SQ("g", "1")
h1 == SQ("h", "1")

(***************************************************************************)
(* Pieces: one character each, ' ' is the empty square.                    *)
(***************************************************************************)
WhitePieces == {"P", "N", "B", "R", "Q", "K"}
BlackPieces == {"p", "n", "b", "r", "q", "k"}

IsEmptySquare(p) == p = " "
IsWhite(p) == p \in WhitePieces
IsBlack(p) == p \in BlackPieces

(***************************************************************************)
(* Geometry tables, built once from the board geometry.                    *)
(***************************************************************************)
OnBoard(c, r) == c \in 0..7 /\ r \in 0..7

\* the squares from sq outward in direction (dc, dr), up to the board edge
Ray(sq, dc, dr) ==
    LET n == Cardinality({k \in 1..7 : OnBoard(Col(sq) + k * dc, Row(sq) + k * dr)})
    IN  [k \in 1..n |-> sq + k * (dr * 8 + dc)]

NonEmpty(rays) == SelectSeq(rays, LAMBDA r : Len(r) > 0)

RookDirs == << <<0, -1>>, <<1, 0>>, <<0, 1>>, <<-1, 0>> >>
BishopDirs == << <<1, -1>>, <<1, 1>>, <<-1, 1>>, <<-1, -1>> >>
QueenDirs == RookDirs \o BishopDirs
KnightSteps == << <<1, -2>>, <<2, -1>>, <<2, 1>>, <<1, 2>>,
                  <<-1, 2>>, <<-2, 1>>, <<-2, -1>>, <<-1, -2>> >>

RaysOf(sq, dirs) == NonEmpty([i \in 1..Len(dirs) |-> Ray(sq, dirs[i][1], dirs[i][2])])

\* single steps that stay on the board, in table order
StepsOf(sq, steps) ==
    LET on == SelectSeq(steps, LAMBDA s : OnBoard(Col(sq) + s[1], Row(sq) + s[2]))
    IN  [i \in 1..Len(on) |-> sq + on[i][2] * 8 + on[i][1]]

rook_lookup == [sq \in Squares64 |-> RaysOf(sq, RookDirs)]
bishop_lookup == [sq \in Squares64 |-> RaysOf(sq, BishopDirs)]
queen_lookup == [sq \in Squares64 |-> RaysOf(sq, QueenDirs)]
knight_lookup == [sq \in Squares64 |-> StepsOf(sq, KnightSteps)]
king_lookup == [sq \in Squares64 |-> StepsOf(sq, QueenDirs)]

\* pawn tables: the capture diagonals, then the straight advance (two squares
\* from the home rank)
pawn_white_lookup ==
    [sq \in Squares64 |->
        [capture |-> StepsOf(sq, << <<-1, -1>>, <<1, -1>> >>),
         advance |-> IF Row(sq) = 6 THEN <<sq - 8, sq - 16>>
                     ELSE IF Row(sq) \in 1..5 THEN <<sq - 8>> ELSE <<>>]]
pawn_black_lookup ==
    [sq \in Squares64 |->
        [capture |-> StepsOf(sq, << <<-1, 1>>, <<1, 1>> >>),
         advance |-> IF Row(sq) = 1 THEN <<sq + 8, sq + 16>>
                     ELSE IF Row(sq) \in 2..6 THEN <<sq + 8>> ELSE <<>>]]

\* the kind of man a piece character stands for, as the attack masks name it
to_mask(piece) ==
    CASE piece \in {"P", "p"} -> "P"
      [] piece \in {"N", "n"} -> "N"
      [] piece \in {"B", "b"} -> "B"
      [] piece \in {"R", "r"} -> "R"
      [] piece \in {"Q", "q"} -> "Q"
      [] piece \in {"K", "k"} -> "K"
      [] OTHER -> "-"

\* attack rays from a square: each entry is a square and the mask of the kinds
\* of enemy man that attack along this ray from that distance.  pawnrow is the
\* row direction in which an attacking pawn stands (+1: below, white pawns).
AttackRay(sq, dc, dr, pawnrow) ==
    LET ray == Ray(sq, dc, dr)
        diag == dc # 0 /\ dr # 0
    IN  [k \in 1..Len(ray) |->
            [sq |-> ray[k],
             mask |-> (IF diag THEN {"B", "Q"} ELSE {"R", "Q"})
                      \cup (IF k = 1 THEN {"K"} ELSE {})
                      \cup (IF k = 1 /\ diag /\ dr = pawnrow THEN {"P"} ELSE {})]]

AttackRays(sq, pawnrow) ==
    NonEmpty([i \in 1..8 |-> AttackRay(sq, QueenDirs[i][1], QueenDirs[i][2], pawnrow)])

\* attacks on a black man (by White: white pawns stand one row below)
attacks_black_lookup == [sq \in Squares64 |-> AttackRays(sq, 1)]
\* attacks on a white man (by Black: black pawns stand one row above)
attacks_white_lookup == [sq \in Squares64 |-> AttackRays(sq, -1)]

(***************************************************************************)
(* Moves.                                                                  *)
(***************************************************************************)
Promotions == {"SPECIAL_PROMOTION_QUEEN", "SPECIAL_PROMOTION_ROOK",
               "SPECIAL_PROMOTION_BISHOP", "SPECIAL_PROMOTION_KNIGHT"}
Castlings == {"SPECIAL_WK_CASTLING", "SPECIAL_WQ_CASTLING",
              "SPECIAL_BK_CASTLING", "SPECIAL_BQ_CASTLING"}
Specials == {"NOT_SPECIAL", "SPECIAL_KING_MOVE", "SPECIAL_WEN_PASSANT",
             "SPECIAL_BEN_PASSANT", "SPECIAL_WPAWN_2SQUARES",
             "SPECIAL_BPAWN_2SQUARES"} \cup Promotions \cup Castlings

Move(src, dst, special, capture) ==
    [src |-> src, dst |-> dst, special |-> special, capture |-> capture]

is_promotion(m) == m.special \in Promotions

\* (a mutant: the rook promotion comes second and the knight last)
PromotionMoves_RookSecond(src, dst, capture) ==
    << Move(src, dst, "SPECIAL_PROMOTION_QUEEN", capture),
       Move(src, dst, "SPECIAL_PROMOTION_ROOK", capture),
       Move(src, dst, "SPECIAL_PROMOTION_BISHOP", capture),
       Move(src, dst, "SPECIAL_PROMOTION_KNIGHT", capture) >>

\* the four (under)promotions of one pawn move, in the generator's order
PromotionMoves(src, dst, capture) ==
    << Move(src, dst, "SPECIAL_PROMOTION_QUEEN", capture),
       Move(src, dst, "SPECIAL_PROMOTION_KNIGHT", capture),
       Move(src, dst, "SPECIAL_PROMOTION_BISHOP", capture),
       Move(src, dst, "SPECIAL_PROMOTION_ROOK", capture) >>

RECURSIVE Flatten(_)
Flatten(seqs) == IF seqs = <<>> THEN <<>> ELSE Head(seqs) \o Flatten(Tail(seqs))

(***************************************************************************)
(* A position cr is a record with the fields of ChessRules: squares,       *)
(* white, d, detail_stack, history, half_move_clock, full_move_count.      *)
(***************************************************************************)
Enemy(cr, piece) == (cr.white /\ IsBlack(piece)) \/ (~cr.white /\ IsWhite(piece))

\* Is a square attacked by the enemy?
RayAttacks(cr, ray, enemy_is_white) ==
    LET occ == {k \in 1..Len(ray) : ~IsEmptySquare(cr.squares[ray[k].sq])}
    IN  IF occ = {} THEN FALSE
        ELSE LET k == CHOOSE x \in occ : \A y \in occ : x <= y
                 piece == cr.squares[ray[k].sq]
             IN  /\ (IsWhite(piece) /\ enemy_is_white)
                       \/ (IsBlack(piece) /\ ~enemy_is_white)
                 /\ to_mask(piece) \in ray[k].mask

AttackedSquare(cr, square, enemy_is_white) ==
    LET rays == IF enemy_is_white THEN attacks_black_lookup[square]
                ELSE attacks_white_lookup[square]
        knights == knight_lookup[square]
    IN  \/ \E i \in 1..Len(rays) : RayAttacks(cr, rays[i], enemy_is_white)
        \/ \E i \in 1..Len(knights) :
              cr.squares[knights[i]] = (IF enemy_is_white THEN "N" ELSE "n")

\* (a mutant: the attack is looked for from the man's own side)
AttackedPiece_OwnSide(cr, square) ==
    AttackedSquare(cr, square, IsWhite(cr.squares[square]))

\* Determine if an occupied square is attacked
AttackedPiece(cr, square) ==
    AttackedSquare(cr, square, IsBlack(cr.squares[square]))

\* (a mutant: the ray goes on behind a captured man)
RECURSIVE RayMoves_Through(_, _, _, _)
RayMoves_Through(cr, square, ray, i) ==
    IF i > Len(ray) THEN <<>>
    ELSE LET dst == ray[i]
             piece == cr.squares[dst]
         IN  IF IsEmptySquare(piece)
             THEN <<Move(square, dst, "NOT_SPECIAL", " ")>>
                  \o RayMoves_Through(cr, square, ray, i + 1)
             ELSE IF Enemy(cr, piece)
             THEN <<Move(square, dst, "NOT_SPECIAL", piece)>>
                  \o RayMoves_Through(cr, square, ray, i + 1)
             ELSE <<>>

\* Moves of one piece along one ray, stopping at the first occupied square
RECURSIVE RayMoves(_, _, _, _)
RayMoves(cr, square, ray, i) ==
    IF i > Len(ray) THEN <<>>
    ELSE LET dst == ray[i]
             piece == cr.squares[dst]
         IN  IF IsEmptySquare(piece)
             THEN <<Move(square, dst, "NOT_SPECIAL", " ")>> \o RayMoves(cr, square, ray, i + 1)
             ELSE IF Enemy(cr, piece)
             THEN <<Move(square, dst, "NOT_SPECIAL", piece)>>
             ELSE <<>>

\* Generate moves for pieces that move along multi-move rays (B,R,Q)
LongMoves(cr, square, rays) ==
    Flatten([i \in 1..Len(rays) |-> RayMoves(cr, square, rays[i], 1)])

\* Generate moves for pieces that move along single move rays (N,K)
ShortMoves(cr, square, steps, special) ==
    Flatten([i \in 1..Len(steps) |->
        LET dst == steps[i]
            piece == cr.squares[dst]
        IN  IF IsEmptySquare(piece) THEN <<Move(square, dst, special, " ")>>
            ELSE IF Enemy(cr, piece) THEN <<Move(square, dst, special, piece)>>
            ELSE <<>>])

\* (a mutant: the square the king passes over is not looked at)
KingMoves_ThroughCheck(cr, square) ==
    ShortMoves(cr, square, king_lookup[square], "SPECIAL_KING_MOVE")
    \o (IF /\ square = e1
           /\ cr.squares[g1] = " " /\ cr.squares[f1] = " " /\ cr.squares[h1] = "R"
           /\ cr.d.wking
           /\ ~AttackedSquare(cr, e1, FALSE)
           /\ ~AttackedSquare(cr, g1, FALSE)
        THEN <<Move(e1, g1, "SPECIAL_WK_CASTLING", " ")>> ELSE <<>>)
    \o (IF /\ square = e1
           /\ cr.squares[b1] = " " /\ cr.squares[c1] = " " /\ cr.squares[d1] = " "
           /\ cr.squares[a1] = "R"
           /\ cr.d.wqueen
           /\ ~AttackedSquare(cr, e1, FALSE)
           /\ ~AttackedSquare(cr, c1, FALSE)
        THEN <<Move(e1, c1, "SPECIAL_WQ_CASTLING", " ")>> ELSE <<>>)
    \o (IF /\ square = e8
           /\ cr.squares[g8] = " " /\ cr.squares[f8] = " " /\ cr.squares[h8] = "r"
           /\ cr.d.bking
           /\ ~AttackedSquare(cr, e8, TRUE)
           /\ ~AttackedSquare(cr, g8, TRUE)
        THEN <<Move(e8, g8, "SPECIAL_BK_CASTLING", " ")>> ELSE <<>>)
    \o (IF /\ square = e8
           /\ cr.squares[b8] = " " /\ cr.squares[c8] = " " /\ cr.squares[d8] = " "
           /\ cr.squares[a8] = "r"
           /\ cr.d.bqueen
           /\ ~AttackedSquare(cr, e8, TRUE)
           /\ ~AttackedSquare(cr, c8, TRUE)
        THEN <<Move(e8, c8, "SPECIAL_BQ_CASTLING", " ")>> ELSE <<>>)

\* Generate list of king moves
KingMoves(cr, square) ==
    ShortMoves(cr, square, king_lookup[square], "SPECIAL_KING_MOVE")
    \o (IF /\ square = e1
           /\ cr.squares[g1] = " " /\ cr.squares[f1] = " " /\ cr.squares[h1] = "R"
           /\ cr.d.wking
           /\ ~AttackedSquare(cr, e1, FALSE)
           /\ ~AttackedSquare(cr, f1, FALSE)
           /\ ~AttackedSquare(cr, g1, FALSE)
        THEN <<Move(e1, g1, "SPECIAL_WK_CASTLING", " ")>> ELSE <<>>)
    \o (IF /\ square = e1
           /\ cr.squares[b1] = " " /\ cr.squares[c1] = " " /\ cr.squares[d1] = " "
           /\ cr.squares[a1] = "R"
           /\ cr.d.wqueen
           /\ ~AttackedSquare(cr, e1, FALSE)
           /\ ~AttackedSquare(cr, d1, FALSE)
           /\ ~AttackedSquare(cr, c1, FALSE)
        THEN <<Move(e1, c1, "SPECIAL_WQ_CASTLING", " ")>> ELSE <<>>)
    \o (IF /\ square = e8
           /\ cr.squares[g8] = " " /\ cr.squares[f8] = " " /\ cr.squares[h8] = "r"
           /\ cr.d.bking
           /\ ~AttackedSquare(cr, e8, TRUE)
           /\ ~AttackedSquare(cr, f8, TRUE)
           /\ ~AttackedSquare(cr, g8, TRUE)
        THEN <<Move(e8, g8, "SPECIAL_BK_CASTLING", " ")>> ELSE <<>>)
    \o (IF /\ square = e8
           /\ cr.squares[b8] = " " /\ cr.squares[c8] = " " /\ cr.squares[d8] = " "
           /\ cr.squares[a8] = "r"
           /\ cr.d.bqueen
           /\ ~AttackedSquare(cr, e8, TRUE)
           /\ ~AttackedSquare(cr, d8, TRUE)
           /\ ~AttackedSquare(cr, c8, TRUE)
        THEN <<Move(e8, c8, "SPECIAL_BQ_CASTLING", " ")>> ELSE <<>>)

\* (a mutant: an occupied square is passed over, not stopped at)
RECURSIVE PawnAdvances_Jumps(_, _, _, _, _, _)
PawnAdvances_Jumps(cr, square, ray, i, promotion, two_squares) ==
    IF i > Len(ray) THEN <<>>
    ELSE (IF ~IsEmptySquare(cr.squares[ray[i]]) THEN <<>>
          ELSE IF ~promotion
          THEN <<Move(square, ray[i], IF i = 1 THEN "NOT_SPECIAL" ELSE two_squares, " ")>>
          ELSE PromotionMoves(square, ray[i], " "))
         \o PawnAdvances_Jumps(cr, square, ray, i + 1, promotion, two_squares)

\* the advance ray of a pawn: stop at the first occupied square
RECURSIVE PawnAdvances(_, _, _, _, _, _)
PawnAdvances(cr, square, ray, i, promotion, two_squares) ==
    IF i > Len(ray) \/ ~IsEmptySquare(cr.squares[ray[i]]) THEN <<>>
    ELSE (IF ~promotion
          THEN <<Move(square, ray[i], IF i = 1 THEN "NOT_SPECIAL" ELSE two_squares, " ")>>
          ELSE PromotionMoves(square, ray[i], " "))
         \o PawnAdvances(cr, square, ray, i + 1, promotion, two_squares)

\* the capture ray of a pawn
PawnCaptures(cr, square, ray, promotion, en_passant, enemy_pawn) ==
    Flatten([i \in 1..Len(ray) |->
        LET dst == ray[i]
            capture == cr.squares[dst]
        IN  IF dst = cr.d.enpassant_target
            THEN <<Move(square, dst, en_passant, enemy_pawn)>>
            ELSE IF (IF enemy_pawn = "p" THEN IsBlack(capture) ELSE IsWhite(capture))
            THEN IF ~promotion THEN <<Move(square, dst, "NOT_SPECIAL", capture)>>
                 ELSE PromotionMoves(square, dst, capture)
            ELSE <<>>])

\* (a mutant: the promotion rank is taken from the black pawn's code)
WhitePawnMoves_BlackRank(cr, square) ==
    LET promotion == RANK(square) = "2"
    IN  PawnCaptures(cr, square, pawn_white_lookup[square].capture, promotion,
                     "SPECIAL_WEN_PASSANT", "p")
        \o PawnAdvances(cr, square, pawn_white_lookup[square].advance, 1, promotion,
                        "SPECIAL_WPAWN_2SQUARES")

\* Generate list of white pawn moves
WhitePawnMoves(cr, square) ==
    LET promotion == RANK(square) = "7"
    IN  PawnCaptures(cr, square, pawn_white_lookup[square].capture, promotion,
                     "SPECIAL_WEN_PASSANT", "p")
        \o PawnAdvances(cr, square, pawn_white_lookup[square].advance, 1, promotion,
                        "SPECIAL_WPAWN_2SQUARES")

\* Generate list of black pawn moves
BlackPawnMoves(cr, square) ==
    LET promotion == RANK(square) = "2"
    IN  PawnCaptures(cr, square, pawn_black_lookup[square].capture, promotion,
                     "SPECIAL_BEN_PASSANT", "P")
        \o PawnAdvances(cr, square, pawn_black_lookup[square].advance, 1, promotion,
                        "SPECIAL_BPAWN_2SQUARES")

\* the moves of the man on one square (none if it is not the mover's)
SquareMoves(cr, square) ==
    LET piece == cr.squares[square]
    IN  IF (cr.white /\ IsBlack(piece)) \/ (~cr.white /\ IsWhite(piece)) THEN <<>>
        ELSE CASE piece = "P" -> WhitePawnMoves(cr, square)
               [] piece = "p" -> BlackPawnMoves(cr, square)
               [] piece \in {"N", "n"} ->
                    ShortMoves(cr, square, knight_lookup[square], "NOT_SPECIAL")
               [] piece \in {"B", "b"} -> LongMoves(cr, square, bishop_lookup[square])
               [] piece \in {"R", "r"} -> LongMoves(cr, square, rook_lookup[square])
               [] piece \in {"Q", "q"} -> LongMoves(cr, square, queen_lookup[square])
               [] piece \in {"K", "k"} -> KingMoves(cr, square)
               [] OTHER -> <<>>

\* Generate a list of all possible moves in a position
GenMoveList(cr) == Flatten([sq \in 1..64 |-> SquareMoves(cr, sq - 1)])

(***************************************************************************)
(* Make and undo a move.                                                   *)
(***************************************************************************)
\* (a mutant: only a move to a king's home square revokes)
RevokeCastling_KingSquares(dd, dst) ==
    CASE dst = e8 -> [dd EXCEPT !.bqueen = FALSE, !.bking = FALSE]
      [] dst = e1 -> [dd EXCEPT !.wqueen = FALSE, !.wking = FALSE]
      [] OTHER -> dd

\* Update castling prohibited flags for destination square, eg h8 -> bking
RevokeCastling(dd, dst) ==
    CASE dst = a8 -> [dd EXCEPT !.bqueen = FALSE]
      [] dst = e8 -> [dd EXCEPT !.bqueen = FALSE, !.bking = FALSE]
      [] dst = h8 -> [dd EXCEPT !.bking = FALSE]
      [] dst = a1 -> [dd EXCEPT !.wqueen = FALSE]
      [] dst = e1 -> [dd EXCEPT !.wqueen = FALSE, !.wking = FALSE]
      [] dst = h1 -> [dd EXCEPT !.wking = FALSE]
      [] OTHER -> dd

\* King move updates king position in details field (a mutant: the colours
\* swapped)
KingMoved_Swapped(cr, dd, dst) ==
    IF cr.white THEN [dd EXCEPT !.bking_square = dst]
    ELSE [dd EXCEPT !.wking_square = dst]

KingMoved(cr, dd, dst) ==
    IF cr.white THEN [dd EXCEPT !.wking_square = dst]
    ELSE [dd EXCEPT !.bking_square = dst]

\* the board and the detail record after the switch on m.special; d0 is the
\* detail record with the castling flags updated and the en-passant target
\* cleared, sq the board before the move
PushSpecial(cr, m, d0, sq) ==
    CASE m.special = "SPECIAL_KING_MOVE" ->
            [squares |-> [sq EXCEPT ![m.dst] = sq[m.src], ![m.src] = " "],
             d |-> KingMoved(cr, d0, m.dst)]
      [] m.special = "SPECIAL_PROMOTION_QUEEN" ->
            [squares |-> [sq EXCEPT ![m.src] = " ",
                                    ![m.dst] = IF cr.white THEN "Q" ELSE "q"],
             d |-> d0]
      [] m.special = "SPECIAL_PROMOTION_ROOK" ->
            [squares |-> [sq EXCEPT ![m.src] = " ",
                                    ![m.dst] = IF cr.white THEN "R" ELSE "r"],
             d |-> d0]
      [] m.special = "SPECIAL_PROMOTION_BISHOP" ->
            [squares |-> [sq EXCEPT ![m.src] = " ",
                                    ![m.dst] = IF cr.white THEN "B" ELSE "b"],
             d |-> d0]
      [] m.special = "SPECIAL_PROMOTION_KNIGHT" ->
            [squares |-> [sq EXCEPT ![m.src] = " ",
                                    ![m.dst] = IF cr.white THEN "N" ELSE "n"],
             d |-> d0]
      [] m.special = "SPECIAL_WEN_PASSANT" ->
            [squares |-> [sq EXCEPT ![m.src] = " ", ![m.dst] = "P",
                                    ![SOUTH(m.dst)] = " "],
             d |-> d0]
      [] m.special = "SPECIAL_BEN_PASSANT" ->
            [squares |-> [sq EXCEPT ![m.src] = " ", ![m.dst] = "p",
                                    ![NORTH(m.dst)] = " "],
             d |-> d0]
      [] m.special = "SPECIAL_WPAWN_2SQUARES" ->
            [squares |-> [sq EXCEPT ![m.src] = " ", ![m.dst] = "P"],
             d |-> [d0 EXCEPT !.enpassant_target = SOUTH(m.dst)]]
      [] m.special = "SPECIAL_BPAWN_2SQUARES" ->
            [squares |-> [sq EXCEPT ![m.src] = " ", ![m.dst] = "p"],
             d |-> [d0 EXCEPT !.enpassant_target = NORTH(m.dst)]]
      [] m.special = "SPECIAL_WK_CASTLING" ->
            [squares |-> [sq EXCEPT ![e1] = " ", ![f1] = "R", ![g1] = "K",
                                    ![h1] = " "],
             d |-> [d0 EXCEPT !.wking_square = g1]]
      [] m.special = "SPECIAL_WQ_CASTLING" ->
            [squares |-> [sq EXCEPT ![e1] = " ", ![d1] = "R", ![c1] = "K",
                                    ![a1] = " "],
             d |-> [d0 EXCEPT !.wking_square = c1]]
      [] m.special = "SPECIAL_BK_CASTLING" ->
            [squares |-> [sq EXCEPT ![e8] = " ", ![f8] = "r", ![g8] = "k",
                                    ![h8] = " "],
             d |-> [d0 EXCEPT !.bking_square = g8]]
      [] m.special = "SPECIAL_BQ_CASTLING" ->
            [squares |-> [sq EXCEPT ![e8] = " ", ![d8] = "r", ![c8] = "k",
                                    ![a8] = " "],
             d |-> [d0 EXCEPT !.bking_square = c8]]
      [] OTHER ->
            [squares |-> [sq EXCEPT ![m.dst] = sq[m.src], ![m.src] = " "],
             d |-> d0]

\* (a mutant: the half move clock ticks with every move made)
PushMade_Ticks(cr, new) ==
    [cr EXCEPT !.detail_stack = Append(cr.detail_stack, cr.d),
               !.squares = new.squares,
               !.d = new.d,
               !.white = ~cr.white,
               !.half_move_clock = @ + 1]

\* Make a move (with the potential to undo)
PushMade(cr, new) ==
    [cr EXCEPT !.detail_stack = Append(cr.detail_stack, cr.d),
               !.squares = new.squares,
               !.d = new.d,
               !.white = ~cr.white]

\* (a mutant: the en-passant target is not cleared)
PushMove_KeepsTarget(cr, m) ==
    PushMade(cr, PushSpecial(cr, m, RevokeCastling(cr.d, m.dst), cr.squares))

PushMove(cr, m) ==
    PushMade(cr, PushSpecial(cr, m,
                             [RevokeCastling(cr.d, m.dst)
                                 EXCEPT !.enpassant_target = SQUARE_INVALID],
                             cr.squares))

\* the board with move m, made by the side mover, taken back
UndoBoard(sq, m, mover) ==
    CASE m.special \in Promotions ->
            [sq EXCEPT ![m.src] = IF mover THEN "P" ELSE "p", ![m.dst] = m.capture]
      [] m.special = "SPECIAL_WEN_PASSANT" ->
            [sq EXCEPT ![m.src] = "P", ![m.dst] = " ", ![SOUTH(m.dst)] = "p"]
      [] m.special = "SPECIAL_BEN_PASSANT" ->
            [sq EXCEPT ![m.src] = "p", ![m.dst] = " ", ![NORTH(m.dst)] = "P"]
      [] m.special = "SPECIAL_WK_CASTLING" ->
            [sq EXCEPT ![e1] = "K", ![f1] = " ", ![g1] = " ", ![h1] = "R"]
      [] m.special = "SPECIAL_WQ_CASTLING" ->
            [sq EXCEPT ![e1] = "K", ![d1] = " ", ![c1] = " ", ![a1] = "R"]
      [] m.special = "SPECIAL_BK_CASTLING" ->
            [sq EXCEPT ![e8] = "k", ![f8] = " ", ![g8] = " ", ![h8] = "r"]
      [] m.special = "SPECIAL_BQ_CASTLING" ->
            [sq EXCEPT ![e8] = "k", ![d8] = " ", ![c8] = " ", ![a8] = "r"]
      [] OTHER ->
            [sq EXCEPT ![m.src] = sq[m.dst], ![m.dst] = m.capture]

\* (a mutant: the previous detail record is dropped, not restored)
PopMove_KeepsDetail(cr, m) ==
    [cr EXCEPT !.detail_stack = SubSeq(cr.detail_stack, 1, Len(cr.detail_stack) - 1),
               !.white = ~cr.white,
               !.squares = UndoBoard(cr.squares, m, ~cr.white)]

\* (a mutant: the oldest detail record is restored, not the newest)
PopMove_Oldest(cr, m) ==
    [cr EXCEPT !.d = cr.detail_stack[1],
               !.detail_stack = SubSeq(cr.detail_stack, 2, Len(cr.detail_stack)),
               !.white = ~cr.white,
               !.squares = UndoBoard(cr.squares, m, ~cr.white)]

\* Undo a move
PopMove(cr, m) ==
    [cr EXCEPT !.d = cr.detail_stack[Len(cr.detail_stack)],
               !.detail_stack = SubSeq(cr.detail_stack, 1, Len(cr.detail_stack) - 1),
               !.white = ~cr.white,
               !.squares = UndoBoard(cr.squares, m, ~cr.white)]

(***************************************************************************)
(* Legality.                                                               *)
(***************************************************************************)
\* (a mutant: the king of the side to move is looked at)
Evaluate_OwnKing(cr) ==
    LET my_king == IF cr.white THEN cr.d.wking_square ELSE cr.d.bking_square
    IN  ~AttackedPiece(cr, my_king)

\* Evaluate a position, returns bool okay (not okay means illegal position)
Evaluate(cr) ==
    LET enemy_king == IF cr.white THEN cr.d.bking_square ELSE cr.d.wking_square
    IN  ~AttackedPiece(cr, enemy_king)

\* is_legal(move): the verdict and the position the call leaves; pushed_cr is
\* the position after PushMove(move)
is_legal_pushed(pushed_cr, move) ==
    [okay |-> Evaluate(pushed_cr), cr |-> PopMove(pushed_cr, move)]

\* (a mutant: the move is not taken back)
is_legal_NoPop(cr, move) ==
    [okay |-> Evaluate(PushMove(cr, move)), cr |-> PushMove(cr, move)]

is_legal(cr, move) == is_legal_pushed(PushMove(cr, move), move)

\* select_legal: the legal candidates in order and the position the loop
\* leaves; the loop over candidates[lo..hi] runs its first half and then, from
\* the position that leaves, its second half
select_one(r, candidate) ==
    [moves |-> IF r.okay THEN <<candidate>> ELSE <<>>, cr |-> r.cr]

select_both(first, second) ==
    [moves |-> first.moves \o second.moves, cr |-> second.cr]

RECURSIVE select_legal(_, _, _, _)
RECURSIVE select_second(_, _, _, _)
select_second(first, candidates, lo, hi) ==
    select_both(first, select_legal(first.cr, candidates, lo, hi))

select_legal(cr, candidates, lo, hi) ==
    IF lo > hi THEN [moves |-> <<>>, cr |-> cr]
    ELSE IF lo = hi THEN select_one(is_legal(cr, candidates[lo]), candidates[lo])
    ELSE select_second(select_legal(cr, candidates, lo, (lo + hi) \div 2),
                       candidates, (lo + hi) \div 2 + 1, hi)

select_all(cr, candidates) == select_legal(cr, candidates, 1, Len(candidates))

\* Create a list of all legal moves in this position
GenLegalMoveList(cr) == select_all(cr, GenMoveList(cr))

(***************************************************************************)
(* Terminal evaluation.                                                    *)
(***************************************************************************)
\* the loop of Evaluate over list[lo..hi]: the number of moves that do not
\* leave the mover's king attacked, and the position the loop leaves; the loop
\* runs its first half and then, from the position that leaves, its second
RECURSIVE EvaluateLoop(_, _, _, _)
EvaluateLoop(cr, list, lo, hi) ==
    IF lo > hi THEN [any |-> 0, cr |-> cr]
    ELSE IF lo = hi
    THEN LET pushed_cr == PushMove(cr, list[lo])
             my_king == IF pushed_cr.white THEN pushed_cr.d.bking_square
                        ELSE pushed_cr.d.wking_square
         IN  [any |-> IF ~AttackedPiece(pushed_cr, my_king) THEN 1 ELSE 0,
              cr |-> PopMove(pushed_cr, list[lo])]
    ELSE LET mid == (lo + hi) \div 2
             first == EvaluateLoop(cr, list, lo, mid)
             second == EvaluateLoop(first.cr, list, mid + 1, hi)
         IN  [any |-> first.any + second.any, cr |-> second.cr]

\* (a mutant: mate is reported whether or not the king is attacked)
TerminalScore_AlwaysMate(cr, any) ==
    IF any # 0 THEN "NOT_TERMINAL"
    ELSE IF cr.white THEN "TERMINAL_WCHECKMATE" ELSE "TERMINAL_BCHECKMATE"

\* If no legal moves, position is either checkmate or stalemate
TerminalScore(cr, any) ==
    IF any # 0 THEN "NOT_TERMINAL"
    ELSE LET my_king == IF cr.white THEN cr.d.wking_square ELSE cr.d.bking_square
         IN  IF AttackedPiece(cr, my_king)
             THEN (IF cr.white THEN "TERMINAL_WCHECKMATE" ELSE "TERMINAL_BCHECKMATE")
             ELSE (IF cr.white THEN "TERMINAL_WSTALEMATE" ELSE "TERMINAL_BSTALEMATE")

\* Evaluate(list, score_terminal): okay, the terminal kind, the position left
EvaluateTerminal(cr) ==
    LET enemy_king == IF cr.white THEN cr.d.bking_square ELSE cr.d.wking_square
    IN  IF AttackedPiece(cr, enemy_king)
        THEN [okay |-> FALSE, score_terminal |-> "NOT_TERMINAL", cr |-> cr]
        ELSE LET list == GenMoveList(cr)
                 r == EvaluateLoop(cr, list, 1, Len(list))
             IN  [okay |-> TRUE,
                  score_terminal |-> TerminalScore(r.cr, r.any),
                  cr |-> r.cr]

(***************************************************************************)
(* Test for legal position.                                                *)
(***************************************************************************)
\* the board scan of IsLegal, which visits every square from a8 to h1: the
\* counts, whether a pawn stands on the first or last rank, and the last
\* square found to hold the king of the side not to move
Holding(cr, men) == {sq \in Squares64 : cr.squares[sq] \in men}

LastOf(found) ==
    IF found = {} THEN SQUARE_INVALID
    ELSE CHOOSE sq \in found : \A other \in found : other <= sq

LegalScan(cr) ==
    [pawn_position |-> \E sq \in Holding(cr, {"P", "p"}) : 7 - Row(sq) \in {0, 7},
     wpawns |-> Cardinality(Holding(cr, {"P"})),
     wpieces |-> Cardinality(Holding(cr, WhitePieces \ {"P"})),
     wkings |-> Cardinality(Holding(cr, {"K"})),
     bpawns |-> Cardinality(Holding(cr, {"p"})),
     bpieces |-> Cardinality(Holding(cr, BlackPieces \ {"p"})),
     bkings |-> Cardinality(Holding(cr, {"k"})),
     opposition_king_location |->
         LastOf(Holding(cr, IF cr.white THEN {"k"} ELSE {"K"}))]

\* (a mutant: a pawn on the first or last rank is not looked for)
LegalReasons_NoPawnPosition(cr, s) ==
    (IF s.wkings # 1 \/ s.bkings # 1 THEN {"IR_NOT_ONE_KING_EACH"} ELSE {})
    \cup (IF s.wpawns > 8 THEN {"IR_WHITE_TOO_MANY_PAWNS"} ELSE {})
    \cup (IF s.bpawns > 8 THEN {"IR_BLACK_TOO_MANY_PAWNS"} ELSE {})

\* the reasons IsLegal sets after the scan s
LegalReasons(cr, s) ==
    (IF s.pawn_position THEN {"IR_PAWN_POSITION"} ELSE {})
    \cup (IF s.wkings # 1 \/ s.bkings # 1 THEN {"IR_NOT_ONE_KING_EACH"} ELSE {})
    \cup (IF s.opposition_king_location # SQUARE_INVALID
              /\ AttackedPiece(cr, s.opposition_king_location)
           THEN {"IR_CAN_TAKE_KING"} ELSE {})
    \cup (IF s.wpieces > 8 /\ s.wpieces + s.wpawns > 16
           THEN {"IR_WHITE_TOO_MANY_PIECES"} ELSE {})
    \cup (IF s.bpieces > 8 /\ s.bpieces + s.bpawns > 16
           THEN {"IR_BLACK_TOO_MANY_PIECES"} ELSE {})
    \cup (IF s.wpawns > 8 THEN {"IR_WHITE_TOO_MANY_PAWNS"} ELSE {})
    \cup (IF s.bpawns > 8 THEN {"IR_BLACK_TOO_MANY_PAWNS"} ELSE {})

\* legal is cleared wherever a reason is set
LegalResult(reason) == [legal |-> reason = {}, reason |-> reason]

\* Test for legal position, sets reason to a mask of possibly multiple reasons
IsLegal(cr) == LegalResult(LegalReasons(cr, LegalScan(cr)))

(***************************************************************************)
(* Draw rules.                                                             *)
(***************************************************************************)
\* the board scan of IsInsufficientDraw, with its early exit
RECURSIVE MaterialScan(_, _, _)
MaterialScan(cr, square, acc) ==
    IF square > h1 THEN acc
    ELSE LET piece == cr.squares[square]
             counted == piece \in {"B", "b", "N", "n", "Q", "q", "R", "r", "P", "p"}
             nxt == IF ~counted THEN acc
                    ELSE [piece_count |-> acc.piece_count + 1,
                          bishop_or_knight |->
                              acc.bishop_or_knight \/ piece \in {"B", "b", "N", "n"},
                          lone_wking |-> acc.lone_wking /\ ~IsWhite(piece),
                          lone_bking |-> acc.lone_bking /\ IsWhite(piece)]
         IN  IF ~nxt.lone_wking /\ ~nxt.lone_bking THEN nxt
             ELSE MaterialScan(cr, square + 1, nxt)

\* (a mutant: one man of any kind is an automatic draw)
AutomaticDraw_AnyOne(scan) == scan.piece_count <= 1

\* Automatic draw if K v K or K v K+N or K v K+B
AutomaticDraw(scan) ==
    scan.piece_count = 0 \/ (scan.piece_count = 1 /\ scan.bishop_or_knight)

\* (a mutant: the side that has the lone king can claim)
ClaimableDraw_OwnKing(scan, white_asks) ==
    (white_asks /\ scan.lone_wking) \/ (~white_asks /\ scan.lone_bking)

\* Otherwise side playing against lone K can claim a draw
ClaimableDraw(scan, white_asks) ==
    (white_asks /\ scan.lone_bking) \/ (~white_asks /\ scan.lone_wking)

\* Check insufficient material draw rule
IsInsufficientDraw(cr, white_asks) ==
    LET scan == MaterialScan(cr, a8, [piece_count |-> 0, bishop_or_knight |-> FALSE,
                                      lone_wking |-> TRUE, lone_bking |-> TRUE])
    IN  IF AutomaticDraw(scan)
        THEN [draw |-> TRUE, result |-> "DRAWTYPE_INSUFFICIENT_AUTO"]
        ELSE IF ClaimableDraw(scan, white_asks)
        THEN [draw |-> TRUE, result |-> "DRAWTYPE_INSUFFICIENT"]
        ELSE [draw |-> FALSE, result |-> "UNSET"]

eq_castling(x, y) ==
    x.wking = y.wking /\ x.wqueen = y.wqueen /\ x.bking = y.bking /\ x.bqueen = y.bqueen

\* (a mutant: every en-passant target counts as real)
RealEnPassant_Always(squ, ep) == ep # SQUARE_INVALID

\* is the en-passant target ep of board squ a real one, i.e. is there an
\* opposition pawn in place to capture
RealEnPassant(squ, ep) ==
    IF ep = a6 THEN squ[SE(ep)] = "P"
    ELSE IF b6 <= ep /\ ep <= g6 THEN squ[SW(ep)] = "P" \/ squ[SE(ep)] = "P"
    ELSE IF ep = h6 THEN squ[SW(ep)] = "P"
    ELSE IF ep = a3 THEN squ[NE(ep)] = "p"
    ELSE IF b3 <= ep /\ ep <= g3 THEN squ[NE(ep)] = "p" \/ squ[NW(ep)] = "p"
    ELSE IF ep = h3 THEN squ[NW(ep)] = "p"
    ELSE FALSE

\* (a mutant: the naive binary match of the details)
RevokeMatch_Naive(cr, save) == cr.d # save.d

\* (a mutant: different castling flags never revoke a match)
RevokeMatch_EnPassantOnly(cr, save) ==
    LET ep_saved == IF RealEnPassant(save.squares, save.d.enpassant_target)
                    THEN save.d.enpassant_target ELSE SQUARE_INVALID
        ep_now == IF RealEnPassant(cr.squares, cr.d.enpassant_target)
                  THEN cr.d.enpassant_target ELSE SQUARE_INVALID
    IN  cr.d.enpassant_target # save.d.enpassant_target /\ ep_saved # ep_now

\* a raw match whose details differ: is it revoked?
RevokeMatch(cr, save) ==
    LET ep_saved == IF RealEnPassant(save.squares, save.d.enpassant_target)
                    THEN save.d.enpassant_target ELSE SQUARE_INVALID
        ep_now == IF RealEnPassant(cr.squares, cr.d.enpassant_target)
                  THEN cr.d.enpassant_target ELSE SQUARE_INVALID
        revoke_ep == cr.d.enpassant_target # save.d.enpassant_target /\ ep_saved # ep_now
        s == save.squares
        n == cr.squares
    IN  \/ revoke_ep
        \/ /\ ~eq_castling(cr.d, save.d)
           /\ \/ (s[e1] = "K" /\ s[h1] = "R" /\ save.d.wking)
                    # (n[e1] = "K" /\ n[h1] = "R" /\ cr.d.wking)
              \/ (s[e8] = "k" /\ s[h8] = "r" /\ save.d.bking)
                    # (n[e8] = "k" /\ n[h8] = "r" /\ cr.d.bking)
              \/ (s[e1] = "K" /\ s[a1] = "R" /\ save.d.wqueen)
                    # (n[e1] = "K" /\ n[a1] = "R" /\ cr.d.wqueen)
              \/ (s[e8] = "k" /\ s[a8] = "r" /\ save.d.bqueen)
                    # (n[e8] = "k" /\ n[a8] = "r" /\ cr.d.bqueen)

\* (a mutant: the length of the detail stack is not looked at)
NbrHalfMoves_HistoryOnly(cr) ==
    LET raw == (cr.full_move_count - 1) * 2 + (IF ~cr.white THEN 1 ELSE 0)
        unsigned == IF raw < 0 THEN Len(cr.history) ELSE raw
    IN  IF unsigned < Len(cr.history) THEN unsigned ELSE Len(cr.history)

\* the number of half moves the backward search may undo (a size_t)
NbrHalfMoves(cr) ==
    LET raw == (cr.full_move_count - 1) * 2 + (IF ~cr.white THEN 1 ELSE 0)
        \* a negative int converts to a size_t above every length
        unsigned == IF raw < 0 THEN Len(cr.history) ELSE raw
        m1 == IF unsigned < Len(cr.history) THEN unsigned ELSE Len(cr.history)
    IN  IF m1 < Len(cr.detail_stack) THEN m1 ELSE Len(cr.detail_stack)

\* (a mutant: the search is abandoned after the first move undone)
RepetitionWalk_StopsAtOnce(cr, save, nbr_half_moves, i, matches) ==
    IF i >= nbr_half_moves THEN [matches |-> matches, cr |-> cr]
    ELSE LET m == cr.history[Len(cr.history) - i]
             now == PopMove(cr, m)
             raw == /\ now.white = save.white
                    /\ now.d.wking_square = save.d.wking_square
                    /\ now.d.bking_square = save.d.bking_square
                    /\ now.squares = save.squares
         IN  [matches |-> IF raw /\ (now.d = save.d \/ ~RevokeMatch(now, save))
                          THEN matches + 1 ELSE matches,
              cr |-> now]

\* the backward search of GetRepetitionCount
RECURSIVE RepetitionWalk(_, _, _, _, _)
RepetitionWalk(cr, save, nbr_half_moves, i, matches) ==
    IF i >= nbr_half_moves THEN [matches |-> matches, cr |-> cr]
    ELSE LET m == cr.history[Len(cr.history) - i]
             now == PopMove(cr, m)
             raw == /\ now.white = save.white
                    /\ now.d.wking_square = save.d.wking_square
                    /\ now.d.bking_square = save.d.bking_square
                    /\ now.squares = save.squares
         IN  IF raw /\ now.d = save.d
             THEN RepetitionWalk(now, save, nbr_half_moves, i + 1, matches + 1)
             ELSE LET count == IF raw /\ ~RevokeMatch(now, save) THEN matches + 1
                               ELSE matches
                  IN  IF now.squares[m.src] \in {"P", "p"} \/ ~IsEmptySquare(m.capture)
                      THEN [matches |-> count, cr |-> now]
                      ELSE RepetitionWalk(now, save, nbr_half_moves, i + 1, count)

\* (a mutant: the detail stack is left as the search emptied it)
GetRepetitionCount_StackNotRestored(cr) ==
    LET r == RepetitionWalk(cr, cr, NbrHalfMoves(cr), 0, 0)
    IN  [count |-> r.matches + 1,
         cr |-> [r.cr EXCEPT !.squares = cr.squares, !.white = cr.white, !.d = cr.d]]

\* Get number of times position has been repeated: the count and the position
\* the call leaves
GetRepetitionCount(cr) ==
    LET r == RepetitionWalk(cr, cr, NbrHalfMoves(cr), 0, 0)
    IN  [count |-> r.matches + 1,
         cr |-> [r.cr EXCEPT !.squares = cr.squares, !.white = cr.white,
                             !.detail_stack = cr.detail_stack, !.d = cr.d]]

\* (a mutant: the repetition is looked at first)
IsDraw_RepetitionFirst(cr, white_asks) ==
    LET insufficient == IsInsufficientDraw(cr, white_asks)
        rep == GetRepetitionCount(cr)
    IN  IF rep.count >= 3
        THEN [draw |-> TRUE, result |-> "DRAWTYPE_REPITITION", cr |-> rep.cr]
        ELSE IF insufficient.draw
        THEN [draw |-> TRUE, result |-> insufficient.result, cr |-> cr]
        ELSE IF cr.half_move_clock >= 100
        THEN [draw |-> TRUE, result |-> "DRAWTYPE_50MOVE", cr |-> cr]
        ELSE [draw |-> FALSE, result |-> "NOT_DRAW", cr |-> cr]

\* Check draw rules (50 move rule etc.)
IsDraw(cr, white_asks) ==
    LET insufficient == IsInsufficientDraw(cr, white_asks)
    IN  IF insufficient.draw
        THEN [draw |-> TRUE, result |-> insufficient.result, cr |-> cr]
        ELSE IF cr.half_move_clock >= 100
        THEN [draw |-> TRUE, result |-> "DRAWTYPE_50MOVE", cr |-> cr]
        ELSE LET rep == GetRepetitionCount(cr)
             IN  IF rep.count >= 3
                 THEN [draw |-> TRUE, result |-> "DRAWTYPE_REPITITION", cr |-> rep.cr]
                 ELSE [draw |-> FALSE, result |-> "NOT_DRAW", cr |-> rep.cr]

(***************************************************************************)
(* Playing moves.                                                          *)
(***************************************************************************)
\* (a mutant: the move is not saved in the history)
PlayMove_NoHistory(cr, move) ==
    PushMove([cr EXCEPT
                 !.full_move_count = IF ~cr.white THEN @ + 1 ELSE @,
                 !.half_move_clock =
                     IF cr.squares[move.src] \in {"P", "p"} THEN 0
                     ELSE IF ~IsEmptySquare(move.capture) THEN 0
                     ELSE @ + 1],
             move)

\* (a mutant: a capture does not reset the half move clock)
PlayMove_CaptureCounts(cr, move) ==
    PushMove([cr EXCEPT
                 !.history = Append(cr.history, move),
                 !.full_move_count = IF ~cr.white THEN @ + 1 ELSE @,
                 !.half_move_clock =
                     IF cr.squares[move.src] \in {"P", "p"} THEN 0 ELSE @ + 1],
             move)

\* (a mutant: the half move clock is decided after the move has been made)
PlayMove_ClockAfter(cr, move) ==
    LET made == PushMove([cr EXCEPT
                             !.history = Append(cr.history, move),
                             !.full_move_count = IF ~cr.white THEN @ + 1 ELSE @],
                         move)
    IN  [made EXCEPT !.half_move_clock =
                         IF made.squares[move.src] \in {"P", "p"} THEN 0
                         ELSE IF ~IsEmptySquare(move.capture) THEN 0
                         ELSE @ + 1]

\* Play a move
PlayMove(cr, move) ==
    PushMove([cr EXCEPT
                 !.history = Append(cr.history, move),
                 !.full_move_count = IF ~cr.white THEN @ + 1 ELSE @,
                 !.half_move_clock =
                     IF cr.squares[move.src] \in {"P", "p"} THEN 0
                     ELSE IF ~IsEmptySquare(move.capture) THEN 0
                     ELSE @ + 1],
             move)

\* a string is a sequence of characters; Move::uci
PromotionLetter(special) ==
    CASE special = "SPECIAL_PROMOTION_QUEEN" -> <<"q">>
      [] special = "SPECIAL_PROMOTION_ROOK" -> <<"r">>
      [] special = "SPECIAL_PROMOTION_BISHOP" -> <<"b">>
      [] special = "SPECIAL_PROMOTION_KNIGHT" -> <<"n">>
      [] OTHER -> <<>>

\* (a mutant: the promotion letter is left out)
move_uci_Squares(m) == <<FILE(m.src), RANK(m.src), FILE(m.dst), RANK(m.dst)>>

move_uci(m) ==
    <<FILE(m.src), RANK(m.src), FILE(m.dst), RANK(m.dst)>> \o PromotionLetter(m.special)

\* Move(string): the move a coordinate string names
MoveOfString(str) ==
    Move(SQ(str[1], str[2]), SQ(str[3], str[4]),
         IF Len(str) < 5 THEN "NOT_SPECIAL"
         ELSE CASE str[5] \in {"q", "Q"} -> "SPECIAL_PROMOTION_QUEEN"
                [] str[5] \in {"r", "R"} -> "SPECIAL_PROMOTION_ROOK"
                [] str[5] \in {"b", "B"} -> "SPECIAL_PROMOTION_BISHOP"
                [] str[5] \in {"n", "N"} -> "SPECIAL_PROMOTION_KNIGHT"
                [] OTHER -> "NOT_SPECIAL",
         " ")

\* (no move: what a call that throws returns)
NoMove == Move(0, 0, "NOT_SPECIAL", " ")

\* (a mutant: the promotion is not compared)
FirstMatch_SquaresOnly(legal_moves, expected, i) ==
    LET same == {k \in i..Len(legal_moves) :
                    legal_moves[k].src = expected.src /\ legal_moves[k].dst = expected.dst}
    IN  IF same = {} THEN 0 ELSE CHOOSE k \in same : \A other \in same : k <= other

\* the first legal move that matches the expected one, 0 if none does
RECURSIVE FirstMatch(_, _, _)
FirstMatch(legal_moves, expected, i) ==
    IF i > Len(legal_moves) THEN 0
    ELSE LET move == legal_moves[i]
         IN  IF move.src # expected.src \/ move.dst # expected.dst
             THEN FirstMatch(legal_moves, expected, i + 1)
             ELSE IF (is_promotion(move) \/ is_promotion(expected))
                     /\ move.special # expected.special
             THEN FirstMatch(legal_moves, expected, i + 1)
             ELSE i

\* uci_move: the move found (or that it throws) and the position the call
\* leaves; legal is what GenLegalMoveList gave, i the index of the match
uci_found(legal, i) ==
    [thrown |-> i = 0,
     move |-> IF i = 0 THEN NoMove ELSE legal.moves[i],
     cr |-> legal.cr]

uci_match(legal, str) == uci_found(legal, FirstMatch(legal.moves, MoveOfString(str), 1))

uci_move(cr, str) == uci_match(GenLegalMoveList(cr), str)

\* (a mutant: the move is played although resolving it throws)
PlayResolved_Anyway(r) ==
    [thrown |-> r.thrown, cr |-> PlayMove(r.cr, r.move)]

\* PlayMove of the move r that uci_move or san_move returned; nothing is played
\* if it threw
PlayResolved(r) ==
    [thrown |-> r.thrown,
     cr |-> IF r.thrown THEN r.cr ELSE PlayMove(r.cr, r.move)]

play_uci_move(cr, str) == PlayResolved(uci_move(cr, str))

(***************************************************************************)
(* Reading a move in natural notation, e.g. "Nf3".  A string is a sequence *)
(* of characters; the terminating '\0' is the end of the sequence and the  *)
(* character '\0' of a char variable is written "".                        *)
(***************************************************************************)
Digits == {"0", "1", "2", "3", "4", "5", "6", "7", "8", "9"}
Letters ==
    {"a", "b", "c", "d", "e", "f", "g", "h", "i", "j", "k", "l", "m", "n", "o", "p",
     "q", "r", "s", "t", "u", "v", "w", "x", "y", "z",
     "A", "B", "C", "D", "E", "F", "G", "H", "I", "J", "K", "L", "M", "N", "O", "P",
     "Q", "R", "S", "T", "U", "V", "W", "X", "Y", "Z"}
\* isascii(c) && isalnum(c)
IsAlnum(c) == c \in Digits \cup Letters
\* 'a'<=c && c<='h', '1'<=c && c<='8', '2'<=c && c<='7'
IsFileChar(c) == c \in {"a", "b", "c", "d", "e", "f", "g", "h"}
IsRankChar(c) == c \in {"1", "2", "3", "4", "5", "6", "7", "8"}
IsInnerRankChar(c) == c \in {"2", "3", "4", "5", "6", "7"}

\* the characters of the buffer move[10] copied from natural_in; the copy reads
\* natural_in[i] up to i = 9 and so past the end of the view, into whatever
\* lies behind it in memory before a '\0'; it is okay if it stops at a '\0'
\* or a white space character within 10 characters
SanCopy(natural_in, behind) ==
    LET full == natural_in \o behind
        stops == {i \in 1..Len(full) : full[i] \in {" ", "\t", "\r", "\n"}}
                     \cup {Len(full) + 1}
        stop == CHOOSE i \in stops : \A j \in stops : i <= j
    IN  [okay |-> stop <= 10, move |-> SubSeq(full, 1, stop - 1)]

\* Trim string from end
RECURSIVE SanTrimEnd(_)
SanTrimEnd(move) ==
    IF move # <<>> /\ ~IsAlnum(move[Len(move)])
    THEN SanTrimEnd(SubSeq(move, 1, Len(move) - 1))
    ELSE move

\* Trim string from start
RECURSIVE SanTrimStart(_)
SanTrimStart(move) ==
    IF move # <<>> /\ move[1] \in {" ", "\t"} THEN SanTrimStart(Tail(move)) ELSE move

\* Trim enpassant: the string and whether "ep" or "e.p" ended it
SanTrimEnpassant(move) ==
    LET len == Len(move)
        ep == len >= 2 /\ SubSeq(move, len - 1, len) = <<"e", "p">>
        e_p == ~ep /\ len >= 3 /\ SubSeq(move, len - 2, len) = <<"e", ".", "p">>
    IN  IF len >= 2 /\ move[len] = "p"
        THEN [enpassant |-> ep \/ e_p,
              move |-> SanTrimEnd(IF ep THEN SubSeq(move, 1, len - 2)
                                  ELSE IF e_p THEN SubSeq(move, 1, len - 3)
                                  ELSE move)]
        ELSE [enpassant |-> FALSE, move |-> move]

\* Promotion: the promotion letter that ends a string longer than 2
SanPromotion(move) ==
    LET len == Len(move)
        last == move[len]
        promotion ==
            CASE last \in {"O", "o"} -> ""
              [] last \in {"q", "Q"} -> "Q"
              [] last \in {"r", "R"} -> "R"
              [] last = "b" -> IF len = 3 /\ IsInnerRankChar(move[2]) THEN "" ELSE "B"
              [] last = "B" -> "B"
              [] last \in {"n", "N"} -> "N"
              [] OTHER -> ""
        known == last \in {"O", "o", "q", "Q", "r", "R", "b", "B", "n", "N"}
    IN  IF len > 2 /\ ~IsRankChar(last)
        THEN IF promotion = ""
             THEN [okay |-> known, promotion |-> "", move |-> move]
             ELSE IF move[len - 1] \in {"=", "1", "8"}
             THEN [okay |-> TRUE, promotion |-> promotion,
                   move |-> SanTrimEnd(SubSeq(move, 1, len - 1))]
             ELSE [okay |-> FALSE, promotion |-> promotion, move |-> move]
        ELSE [okay |-> TRUE, promotion |-> "", move |-> move]

\* strcmp_ignore against "oo", "o-o", "ooo", "o-o-o"
SanIsCastling(move, text) ==
    /\ Len(move) = Len(text)
    /\ \A i \in 1..Len(text) : (IF move[i] = "O" THEN "o" ELSE move[i]) = text[i]

\* Castling
SanCastling(move, white_) ==
    IF SanIsCastling(move, <<"o", "o">>) \/ SanIsCastling(move, <<"o", "-", "o">>)
    THEN [move |-> IF white_ THEN <<"e", "1", "g", "1">> ELSE <<"e", "8", "g", "8">>,
          kcastling |-> TRUE, qcastling |-> FALSE]
    ELSE IF SanIsCastling(move, <<"o", "o", "o">>)
            \/ SanIsCastling(move, <<"o", "-", "o", "-", "o">>)
    THEN [move |-> IF white_ THEN <<"e", "1", "c", "1">> ELSE <<"e", "8", "c", "8">>,
          kcastling |-> FALSE, qcastling |-> TRUE]
    ELSE [move |-> move, kcastling |-> FALSE, qcastling |-> FALSE]

\* Destination square for all except pawn takes pawn (eg "ef")
SanDestination(move) ==
    LET len == Len(move)
    IN  IF len = 2 /\ IsFileChar(move[1]) /\ IsFileChar(move[2])
        THEN [okay |-> TRUE, src_file |-> move[1], dst_file |-> move[2],
              dst_rank |-> "", dst_ |-> a8]
        ELSE IF len = 3 /\ IsFileChar(move[1]) /\ IsInnerRankChar(move[2])
                /\ IsFileChar(move[3])
        THEN [okay |-> TRUE, src_file |-> move[1], dst_file |-> move[3],
              dst_rank |-> "", dst_ |-> a8]
        ELSE IF len >= 2 /\ IsFileChar(move[len - 1]) /\ IsRankChar(move[len])
        THEN [okay |-> TRUE, src_file |-> "", dst_file |-> move[len - 1],
              dst_rank |-> move[len], dst_ |-> SQ(move[len - 1], move[len])]
        ELSE [okay |-> FALSE, src_file |-> "", dst_file |-> "", dst_rank |-> "",
              dst_ |-> a8]

\* Source square and or piece, given what the steps before have set
SanSource(move, white_, src_file, piece, default_piece) ==
    LET len == Len(move)
        same == [okay |-> TRUE, src_file |-> src_file, src_rank |-> "",
                 piece |-> piece, default_piece |-> default_piece]
    IN  IF len <= 2 THEN same
        ELSE IF IsFileChar(move[1]) /\ IsRankChar(move[2])
        THEN [same EXCEPT !.src_file = move[1], !.src_rank = move[2]]
        ELSE LET named == move[1] \in {"K", "Q", "R", "N", "P", "B"}
                 man == IF white_ THEN move[1]
                        ELSE CASE move[1] = "K" -> "k" [] move[1] = "Q" -> "q"
                               [] move[1] = "R" -> "r" [] move[1] = "N" -> "n"
                               [] move[1] = "P" -> "p" [] move[1] = "B" -> "b"
                               [] OTHER -> ""
                 file1 == IF named THEN src_file
                          ELSE IF IsFileChar(move[1]) THEN move[1] ELSE src_file
                 okay == named \/ IsFileChar(move[1])
                 second == len > 3 /\ file1 = ""
                 src_rank == IF second /\ IsRankChar(move[2]) THEN move[2]
                             ELSE IF second /\ IsFileChar(move[2]) /\ len > 4
                                     /\ IsRankChar(move[3]) THEN move[3]
                             ELSE ""
                 file2 == IF second /\ ~IsRankChar(move[2]) /\ IsFileChar(move[2])
                          THEN move[2] ELSE file1
             IN  [okay |-> okay, src_file |-> file2, src_rank |-> src_rank,
                  piece |-> IF named THEN man ELSE piece,
                  default_piece |-> default_piece /\ ~named]

\* the first move of the list that satisfies the test of its loop; 0 if none
SanFirst(matches) ==
    IF matches = {} THEN 0 ELSE CHOOSE i \in matches : \A j \in matches : i <= j

\* Check against all possible moves: the index in list of the move found, 0
\* if none; squ is the board after GenLegalMoveList
SanFind(list, squ, white_, f) ==
    LET idx == 1..Len(list)
        src_rank == IF f.enpassant THEN "" ELSE f.src_rank
        dst_rank == IF f.enpassant THEN "" ELSE f.dst_rank
        src_file == f.src_file
        dst_file == f.dst_file
        has(c) == c # ""
    IN  IF has(src_file) /\ has(src_rank) /\ has(dst_file) /\ has(dst_rank)
        THEN \* Have source and destination, eg "d2d3"
             LET i == SanFirst({k \in idx :
                          /\ f.default_piece \/ f.piece = squ[list[k].src]
                          /\ src_file = FILE(list[k].src)
                          /\ src_rank = RANK(list[k].src)
                          /\ f.dst_ = list[k].dst})
             IN  IF i = 0 THEN 0
                 ELSE IF f.kcastling
                 THEN (IF list[i].special = (IF white_ THEN "SPECIAL_WK_CASTLING"
                                             ELSE "SPECIAL_BK_CASTLING")
                       THEN i ELSE 0)
                 ELSE IF f.qcastling
                 THEN (IF list[i].special = (IF white_ THEN "SPECIAL_WQ_CASTLING"
                                             ELSE "SPECIAL_BQ_CASTLING")
                       THEN i ELSE 0)
                 ELSE i
        ELSE IF has(src_file) /\ has(dst_file) /\ has(dst_rank)
        THEN \* Have source file only, eg "Rae1"
             SanFirst({k \in idx : /\ f.piece = squ[list[k].src]
                                   /\ src_file = FILE(list[k].src)
                                   /\ f.dst_ = list[k].dst})
        ELSE IF has(src_rank) /\ has(dst_file) /\ has(dst_rank)
        THEN \* Have source rank only, eg "R2d2"
             SanFirst({k \in idx : /\ f.piece = squ[list[k].src]
                                   /\ src_rank = RANK(list[k].src)
                                   /\ f.dst_ = list[k].dst})
        ELSE IF has(src_file) /\ has(src_rank) /\ has(dst_file)
        THEN \* Have destination file only eg e4f
             SanFirst({k \in idx : /\ f.piece = squ[list[k].src]
                                   /\ src_file = FILE(list[k].src)
                                   /\ src_rank = RANK(list[k].src)
                                   /\ dst_file = FILE(list[k].dst)})
        ELSE IF has(src_file) /\ has(dst_file)
        THEN \* Have files only, eg "ef"
             LET i == SanFirst({k \in idx : /\ f.piece = squ[list[k].src]
                                            /\ src_file = FILE(list[k].src)
                                            /\ dst_file = FILE(list[k].dst)})
             IN  IF i = 0 THEN 0
                 ELSE IF f.enpassant
                 THEN (IF list[i].special = (IF white_ THEN "SPECIAL_WEN_PASSANT"
                                             ELSE "SPECIAL_BEN_PASSANT")
                       THEN i ELSE 0)
                 ELSE i
        ELSE IF has(dst_rank) /\ has(dst_file)
        THEN \* Have destination square only eg "a4"
             SanFirst({k \in idx : /\ f.piece = squ[list[k].src]
                                   /\ f.dst_ = list[k].dst})
        ELSE 0

\* (a mutant: a promotion always makes a queen)
SanFound_AlwaysQueen(found, promotion) ==
    IF is_promotion(found)
    THEN [okay |-> TRUE, move |-> [found EXCEPT !.special = "SPECIAL_PROMOTION_QUEEN"]]
    ELSE [okay |-> promotion = "", move |-> found]

\* Copy found move: the move returned, or that a promotion letter was given
\* for a move that is none
SanFound(found, promotion) ==
    IF is_promotion(found)
    THEN [okay |-> TRUE,
          move |-> [found EXCEPT !.special =
                       CASE promotion = "R" -> "SPECIAL_PROMOTION_ROOK"
                         [] promotion = "B" -> "SPECIAL_PROMOTION_BISHOP"
                         [] promotion = "N" -> "SPECIAL_PROMOTION_KNIGHT"
                         [] OTHER -> "SPECIAL_PROMOTION_QUEEN"]]
    ELSE [okay |-> promotion = "", move |-> found]

\* Read natural string move eg "Nf3": the move found (or that it throws) and
\* the position the call leaves; behind is what lies in memory after the
\* characters of natural_in.  One operator for each block of the function,
\* each handed what the blocks before it have set.
SanThrows(cr) == [thrown |-> TRUE, move |-> NoMove, cr |-> cr]

\* Copy found move
SanReturn(legal, r) ==
    [thrown |-> ~r.okay, move |-> IF r.okay THEN r.move ELSE NoMove, cr |-> legal.cr]

SanChosen(legal, promotion, i) ==
    IF i = 0 THEN SanThrows(legal.cr)
    ELSE SanReturn(legal, SanFound(legal.moves[i], promotion))

\* Check against all possible moves
SanCheck(legal, promotion, white_, f) ==
    SanChosen(legal, promotion, SanFind(legal.moves, legal.cr.squares, white_, f))

SanSourced(cr, enpassant, promotion, castling, dst, src) ==
    IF ~src.okay THEN SanThrows(cr)
    ELSE SanCheck(GenLegalMoveList(cr), promotion, cr.white,
                  [src_file |-> src.src_file, src_rank |-> src.src_rank,
                   dst_file |-> dst.dst_file, dst_rank |-> dst.dst_rank,
                   dst_ |-> dst.dst_, piece |-> src.piece,
                   default_piece |-> src.default_piece,
                   enpassant |-> enpassant,
                   kcastling |-> castling.kcastling,
                   qcastling |-> castling.qcastling])

\* the piece is the king after castling text, the pawn of the side to move
\* by default
SanDestined(cr, enpassant, promotion, castling, castles, dst) ==
    IF ~dst.okay THEN SanThrows(cr)
    ELSE SanSourced(cr, enpassant, promotion, castling, dst,
                    SanSource(castling.move, cr.white, dst.src_file,
                              IF castles THEN (IF cr.white THEN "K" ELSE "k")
                              ELSE (IF cr.white THEN "P" ELSE "p"),
                              ~castles))

SanCastled(cr, enpassant, promotion, castling) ==
    SanDestined(cr, enpassant, promotion, castling,
                castling.kcastling \/ castling.qcastling,
                SanDestination(castling.move))

SanPromoted(cr, enpassant, pr) ==
    IF ~pr.okay THEN SanThrows(cr)
    ELSE SanCastled(cr, enpassant, pr.promotion, SanCastling(pr.move, cr.white))

SanTrimmed(cr, ep) == SanPromoted(cr, ep.enpassant, SanPromotion(ep.move))

SanCopied(cr, copy) ==
    IF ~copy.okay THEN SanThrows(cr)
    ELSE SanTrimmed(cr, SanTrimEnpassant(SanTrimStart(SanTrimEnd(copy.move))))

san_move(cr, natural_in, behind) == SanCopied(cr, SanCopy(natural_in, behind))

\* play_san_move: PlayMove(san_move(str)); nothing is played if san_move throws
play_san_move(cr, natural_in, behind) == PlayResolved(san_move(cr, natural_in, behind))

(***************************************************************************)
(* The legal moves with extra info, and a move written in natural          *)
(* notation.                                                               *)
(***************************************************************************)
\* (a mutant: check is reported for a mating move as well)
MoveFlags_CheckWithMate(e, move) ==
    [okay |-> e.okay,
     stalemate |-> e.score_terminal \in {"TERMINAL_WSTALEMATE", "TERMINAL_BSTALEMATE"},
     mate |-> e.score_terminal \in {"TERMINAL_WCHECKMATE", "TERMINAL_BCHECKMATE"},
     check |-> AttackedPiece(e.cr, IF e.cr.white THEN e.cr.d.wking_square
                                   ELSE e.cr.d.bking_square),
     cr |-> PopMove(e.cr, move)]

\* one pass of the loop of GenLegalMoveList(moves, check, mate, stalemate):
\* e is what Evaluate gave after PushMove(move)
MoveFlags(e, move) ==
    LET king_to_move == IF e.cr.white THEN e.cr.d.wking_square
                        ELSE e.cr.d.bking_square
        is_mate == e.score_terminal \in {"TERMINAL_WCHECKMATE", "TERMINAL_BCHECKMATE"}
    IN  [okay |-> e.okay,
         stalemate |-> e.score_terminal \in {"TERMINAL_WSTALEMATE",
                                              "TERMINAL_BSTALEMATE"},
         mate |-> is_mate,
         check |-> IF is_mate THEN FALSE ELSE AttackedPiece(e.cr, king_to_move),
         cr |-> PopMove(e.cr, move)]

\* (a mutant: the move is copied whether or not it was proven good)
FlagsPushed_KeepsAll(f, move) ==
    [moves |-> <<move>>, check |-> <<f.check>>, mate |-> <<f.mate>>,
     stalemate |-> <<f.stalemate>>, cr |-> f.cr]

\* the four vectors after one pass, and the position it leaves
FlagsPushed(f, move) ==
    IF f.okay
    THEN [moves |-> <<move>>, check |-> <<f.check>>, mate |-> <<f.mate>>,
          stalemate |-> <<f.stalemate>>, cr |-> f.cr]
    ELSE [moves |-> <<>>, check |-> <<>>, mate |-> <<>>, stalemate |-> <<>>,
          cr |-> f.cr]

\* the passes for list[lo..hi]: the first half, then the second from the
\* position the first leaves
FlagsJoined(first, second) ==
    [moves |-> first.moves \o second.moves,
     check |-> first.check \o second.check,
     mate |-> first.mate \o second.mate,
     stalemate |-> first.stalemate \o second.stalemate,
     cr |-> second.cr]

RECURSIVE FlagsLoop(_, _, _, _)
RECURSIVE FlagsSecond(_, _, _, _)
FlagsSecond(first, list, lo, hi) == FlagsJoined(first, FlagsLoop(first.cr, list, lo, hi))

FlagsLoop(cr, list, lo, hi) ==
    IF lo > hi
    THEN [moves |-> <<>>, check |-> <<>>, mate |-> <<>>, stalemate |-> <<>>, cr |-> cr]
    ELSE IF lo = hi
    THEN FlagsPushed(MoveFlags(EvaluateTerminal(PushMove(cr, list[lo])), list[lo]),
                     list[lo])
    ELSE FlagsSecond(FlagsLoop(cr, list, lo, (lo + hi) \div 2), list,
                     ((lo + hi) \div 2) + 1, hi)

FlagsAll(cr, list2) == FlagsLoop(cr, list2, 1, Len(list2))

\* Create a list of all legal moves in this position, with extra info
GenLegalMoveListFlags(cr) == FlagsAll(cr, GenMoveList(cr))

\* toupper of the man on a square
ToUpper(p) ==
    CASE p = "k" -> "K" [] p = "q" -> "Q" [] p = "r" -> "R"
      [] p = "b" -> "B" [] p = "n" -> "N" [] p = "p" -> "P" [] OTHER -> p

\* "x" for a move that captures
SanTakes(m) == IF ~IsEmptySquare(m.capture) THEN <<"x">> ELSE <<>>

\* pawn move ? "e4" or "exf6", plus "=Q" etc if promotion
SanPawnMove(m) ==
    (IF ~IsEmptySquare(m.capture)
     THEN <<FILE(m.src), "x", FILE(m.dst), RANK(m.dst)>>
     ELSE <<FILE(m.dst), RANK(m.dst)>>)
    \o (CASE m.special = "SPECIAL_PROMOTION_QUEEN" -> <<"=", "Q">>
          [] m.special = "SPECIAL_PROMOTION_ROOK" -> <<"=", "R">>
          [] m.special = "SPECIAL_PROMOTION_BISHOP" -> <<"=", "B">>
          [] m.special = "SPECIAL_PROMOTION_KNIGHT" -> <<"=", "N">>
          [] OTHER -> <<>>)

\* (a mutant: the source file is never written)
SanPieceMove_NoFile(squ, m, alg) ==
    <<ToUpper(squ[m.src])>>
    \o (CASE alg = "ALG_ND2" -> <<>>
          [] alg = "ALG_NBD2" -> <<>>
          [] alg = "ALG_N1D2" -> <<RANK(m.src)>>
          [] alg = "ALG_NB1D2" -> <<RANK(m.src)>>)
    \o SanTakes(m) \o <<FILE(m.dst), RANK(m.dst)>>

\* what one of the algorithms Nd2, Nbd2, N1d2, Nb1d2 writes for move m
SanPieceMove(squ, m, alg) ==
    <<ToUpper(squ[m.src])>>
    \o (CASE alg = "ALG_ND2" -> <<>>
          [] alg = "ALG_NBD2" -> <<FILE(m.src)>>
          [] alg = "ALG_N1D2" -> <<RANK(m.src)>>
          [] alg = "ALG_NB1D2" -> <<FILE(m.src), RANK(m.src)>>)
    \o SanTakes(m) \o <<FILE(m.dst), RANK(m.dst)>>

\* matches: the legal moves for which a looping algorithm writes nmove, what
\* it has written for the input move
SanMatches(list, squ, nmove, alg) ==
    Cardinality({i \in 1..Len(list) : SanPieceMove(squ, list[i], alg) = nmove})

\* the looping algorithms from alg on: done with the first that only one move
\* matches, Nb1d2 if nothing else works
RECURSIVE SanLoop(_, _, _, _)
RECURSIVE SanLooped(_, _, _, _, _)
SanLooped(list, squ, move, alg, nmove) ==
    IF SanMatches(list, squ, nmove, alg) = 1 THEN nmove
    ELSE SanLoop(list, squ, move,
                 IF alg = "ALG_ND2" THEN "ALG_NBD2"
                 ELSE IF alg = "ALG_NBD2" THEN "ALG_N1D2" ELSE "ALG_NB1D2")

SanLoop(list, squ, move, alg) ==
    IF alg = "ALG_NB1D2" THEN SanPieceMove(squ, move, alg)
    ELSE SanLooped(list, squ, move, alg, SanPieceMove(squ, move, alg))

\* Loop through algorithms, for a move found in the list
SanAlgorithms(list, squ, move) ==
    IF ToUpper(squ[move.src]) = "P" THEN SanPawnMove(move)
    ELSE IF move.special \in {"SPECIAL_WK_CASTLING", "SPECIAL_BK_CASTLING"}
    THEN <<"O", "-", "O">>
    ELSE IF move.special \in {"SPECIAL_WQ_CASTLING", "SPECIAL_BQ_CASTLING"}
    THEN <<"O", "-", "O", "-", "O">>
    ELSE SanLoop(list, squ, move, "ALG_ND2")

\* append: '#' or '+' as the flags of the last entry equal to move that mates
\* or checks say
SanAppend(info, move) ==
    LET hits == {i \in 1..Len(info.moves) :
                    info.moves[i] = move /\ (info.mate[i] \/ info.check[i])}
    IN  IF hits = {} THEN <<>>
        ELSE IF info.mate[CHOOSE i \in hits : \A k \in hits : k <= i] THEN <<"#">>
        ELSE <<"+">>

\* move_san once GenLegalMoveList has filled the vectors: "--" for a move that
\* is not in the list
SanWritten(info, move) ==
    [text |-> IF move \in SeqToSet(info.moves)
              THEN SanAlgorithms(info.moves, info.cr.squares, move)
                   \o SanAppend(info, move)
              ELSE <<"-", "-">>,
     cr |-> info.cr]

\* the move in natural notation, and the position the call leaves
move_san(cr, move) == SanWritten(GenLegalMoveListFlags(cr), move)

(***************************************************************************)
(* Layouts a position is constructed from (rank 8 first, file a first).    *)
(***************************************************************************)
\* rnbqkbnr/pppppppp/8/8/8/8/PPPPPPPP/RNBQKBNR
StartRows ==
    << <<"r", "n", "b", "q", "k", "b", "n", "r">>,
       <<"p", "p", "p", "p", "p", "p", "p", "p">>,
       <<" ", " ", " ", " ", " ", " ", " ", " ">>,
       <<" ", " ", " ", " ", " ", " ", " ", " ">>,
       <<" ", " ", " ", " ", " ", " ", " ", " ">>,
       <<" ", " ", " ", " ", " ", " ", " ", " ">>,
       <<"P", "P", "P", "P", "P", "P", "P", "P">>,
       <<"R", "N", "B", "Q", "K", "B", "N", "R">> >>
\* r3k2r/p6p/8/8/8/8/P6P/R3K2R
CastleRows ==
    << <<"r", " ", " ", " ", "k", " ", " ", "r">>,
       <<"p", " ", " ", " ", " ", " ", " ", "p">>,
       <<" ", " ", " ", " ", " ", " ", " ", " ">>,
       <<" ", " ", " ", " ", " ", " ", " ", " ">>,
       <<" ", " ", " ", " ", " ", " ", " ", " ">>,
       <<" ", " ", " ", " ", " ", " ", " ", " ">>,
       <<"P", " ", " ", " ", " ", " ", " ", "P">>,
       <<"R", " ", " ", " ", "K", " ", " ", "R">> >>
\* r5k1/1P6/8/3pP3/8/8/6P1/6K1
WhitePawnRows ==
    << <<"r", " ", " ", " ", " ", " ", "k", " ">>,
       <<" ", "P", " ", " ", " ", " ", " ", " ">>,
       <<" ", " ", " ", " ", " ", " ", " ", " ">>,
       <<" ", " ", " ", "p", "P", " ", " ", " ">>,
       <<" ", " ", " ", " ", " ", " ", " ", " ">>,
       <<" ", " ", " ", " ", " ", " ", " ", " ">>,
       <<" ", " ", " ", " ", " ", " ", "P", " ">>,
       <<" ", " ", " ", " ", " ", " ", "K", " ">> >>
\* 6k1/6p1/8/8/3Pp3/8/1p6/R5K1
BlackPawnRows ==
    << <<" ", " ", " ", " ", " ", " ", "k", " ">>,
       <<" ", " ", " ", " ", " ", " ", "p", " ">>,
       <<" ", " ", " ", " ", " ", " ", " ", " ">>,
       <<" ", " ", " ", " ", " ", " ", " ", " ">>,
       <<" ", " ", " ", "P", "p", " ", " ", " ">>,
       <<" ", " ", " ", " ", " ", " ", " ", " ">>,
       <<" ", "p", " ", " ", " ", " ", " ", " ">>,
       <<"R", " ", " ", " ", " ", " ", "K", " ">> >>
\* 4r1k1/8/8/8/8/8/4R3/4K3
PinRows ==
    << <<" ", " ", " ", " ", "r", " ", "k", " ">>,
       <<" ", " ", " ", " ", " ", " ", " ", " ">>,
       <<" ", " ", " ", " ", " ", " ", " ", " ">>,
       <<" ", " ", " ", " ", " ", " ", " ", " ">>,
       <<" ", " ", " ", " ", " ", " ", " ", " ">>,
       <<" ", " ", " ", " ", " ", " ", " ", " ">>,
       <<" ", " ", " ", " ", "R", " ", " ", " ">>,
       <<" ", " ", " ", " ", "K", " ", " ", " ">> >>
\* 5K1k/7p/7P/4N3/8/8/8/8
MateRows ==
    << <<" ", " ", " ", " ", " ", "K", " ", "k">>,
       <<" ", " ", " ", " ", " ", " ", " ", "p">>,
       <<" ", " ", " ", " ", " ", " ", " ", "P">>,
       <<" ", " ", " ", " ", "N", " ", " ", " ">>,
       <<" ", " ", " ", " ", " ", " ", " ", " ">>,
       <<" ", " ", " ", " ", " ", " ", " ", " ">>,
       <<" ", " ", " ", " ", " ", " ", " ", " ">>,
       <<" ", " ", " ", " ", " ", " ", " ", " ">> >>
\* 6k1/8/8/8/3p4/8/4P3/6K1
EpRealRows ==
    << <<" ", " ", " ", " ", " ", " ", "k", " ">>,
       <<" ", " ", " ", " ", " ", " ", " ", " ">>,
       <<" ", " ", " ", " ", " ", " ", " ", " ">>,
       <<" ", " ", " ", " ", " ", " ", " ", " ">>,
       <<" ", " ", " ", "p", " ", " ", " ", " ">>,
       <<" ", " ", " ", " ", " ", " ", " ", " ">>,
       <<" ", " ", " ", " ", "P", " ", " ", " ">>,
       <<" ", " ", " ", " ", " ", " ", "K", " ">> >>
\* 6k1/p7/8/8/8/8/4P3/6K1
EpUnrealRows ==
    << <<" ", " ", " ", " ", " ", " ", "k", " ">>,
       <<"p", " ", " ", " ", " ", " ", " ", " ">>,
       <<" ", " ", " ", " ", " ", " ", " ", " ">>,
       <<" ", " ", " ", " ", " ", " ", " ", " ">>,
       <<" ", " ", " ", " ", " ", " ", " ", " ">>,
       <<" ", " ", " ", " ", " ", " ", " ", " ">>,
       <<" ", " ", " ", " ", "P", " ", " ", " ">>,
       <<" ", " ", " ", " ", " ", " ", "K", " ">> >>

BoardOf(rows) ==
    \* (merged with the empty function: the array written out square by square)
    [sq \in Squares64 |-> rows[Row(sq) + 1][Col(sq) + 1]] @@ <<>>

\* the detail record of a constructed position: the king squares are found by
\* scanning the layout
Detail(board, wking, wqueen, bking, bqueen, enpassant_target) ==
    [wking_square |-> CHOOSE sq \in Squares64 : board[sq] = "K",
     bking_square |-> CHOOSE sq \in Squares64 : board[sq] = "k",
     wking |-> wking, wqueen |-> wqueen, bking |-> bking, bqueen |-> bqueen,
     enpassant_target |-> enpassant_target]

\* a position constructed from a layout, the side to move, the castling rights,
\* the en-passant target and the two counters
Position(rows, white, wking, wqueen, bking, bqueen, enpassant_target, half_move_clock, full_move_count) ==
    [squares |-> BoardOf(rows),
     white |-> white,
     d |-> Detail(BoardOf(rows), wking, wqueen, bking, bqueen, enpassant_target),
     detail_stack |-> <<>>,
     history |-> <<>>,
     half_move_clock |-> half_move_clock,
     full_move_count |-> full_move_count]

Str4(f1_, r1_, f2_, r2_) == <<f1_, r1_, f2_, r2_>>

\* k7/8/8/8/7K/1N6/3p4/1N3N2
SanKnightsRows ==
    << <<"k", " ", " ", " ", " ", " ", " ", " ">>,
       <<" ", " ", " ", " ", " ", " ", " ", " ">>,
       <<" ", " ", " ", " ", " ", " ", " ", " ">>,
       <<" ", " ", " ", " ", " ", " ", " ", " ">>,
       <<" ", " ", " ", " ", " ", " ", " ", "K">>,
       <<" ", "N", " ", " ", " ", " ", " ", " ">>,
       <<" ", " ", " ", "p", " ", " ", " ", " ">>,
       <<" ", "N", " ", " ", " ", "N", " ", " ">> >>
\* r3k3/8/8/8/8/8/8/R3K2R
SanCastleRows ==
    << <<"r", " ", " ", " ", "k", " ", " ", " ">>,
       <<" ", " ", " ", " ", " ", " ", " ", " ">>,
       <<" ", " ", " ", " ", " ", " ", " ", " ">>,
       <<" ", " ", " ", " ", " ", " ", " ", " ">>,
       <<" ", " ", " ", " ", " ", " ", " ", " ">>,
       <<" ", " ", " ", " ", " ", " ", " ", " ">>,
       <<" ", " ", " ", " ", " ", " ", " ", " ">>,
       <<"R", " ", " ", " ", "K", " ", " ", "R">> >>
\* 7k/5K2/8/8/8/8/8/6Q1
SanQueenRows ==
    << <<" ", " ", " ", " ", " ", " ", " ", "k">>,
       <<" ", " ", " ", " ", " ", "K", " ", " ">>,
       <<" ", " ", " ", " ", " ", " ", " ", " ">>,
       <<" ", " ", " ", " ", " ", " ", " ", " ">>,
       <<" ", " ", " ", " ", " ", " ", " ", " ">>,
       <<" ", " ", " ", " ", " ", " ", " ", " ">>,
       <<" ", " ", " ", " ", " ", " ", " ", " ">>,
       <<" ", " ", " ", " ", " ", " ", "Q", " ">> >>

\* r3k2r/8/b7/6n1/8/n7/8/R3K2R
CastleAttackRows ==
    << <<"r", " ", " ", " ", "k", " ", " ", "r">>,
       <<" ", " ", " ", " ", " ", " ", " ", " ">>,
       <<"b", " ", " ", " ", " ", " ", " ", " ">>,
       <<" ", " ", " ", " ", " ", " ", "n", " ">>,
       <<" ", " ", " ", " ", " ", " ", " ", " ">>,
       <<"n", " ", " ", " ", " ", " ", " ", " ">>,
       <<" ", " ", " ", " ", " ", " ", " ", " ">>,
       <<"R", " ", " ", " ", "K", " ", " ", "R">> >>
\* 6k1/8/8/8/8/8/8/R3K2R
RookReturnRows ==
    << <<" ", " ", " ", " ", " ", " ", "k", " ">>,
       <<" ", " ", " ", " ", " ", " ", " ", " ">>,
       <<" ", " ", " ", " ", " ", " ", " ", " ">>,
       <<" ", " ", " ", " ", " ", " ", " ", " ">>,
       <<" ", " ", " ", " ", " ", " ", " ", " ">>,
       <<" ", " ", " ", " ", " ", " ", " ", " ">>,
       <<" ", " ", " ", " ", " ", " ", " ", " ">>,
       <<"R", " ", " ", " ", "K", " ", " ", "R">> >>
\* 6k1/8/8/8/8/8/8/4K3
BareKingsRows ==
    << <<" ", " ", " ", " ", " ", " ", "k", " ">>,
       <<" ", " ", " ", " ", " ", " ", " ", " ">>,
       <<" ", " ", " ", " ", " ", " ", " ", " ">>,
       <<" ", " ", " ", " ", " ", " ", " ", " ">>,
       <<" ", " ", " ", " ", " ", " ", " ", " ">>,
       <<" ", " ", " ", " ", " ", " ", " ", " ">>,
       <<" ", " ", " ", " ", " ", " ", " ", " ">>,
       <<" ", " ", " ", " ", "K", " ", " ", " ">> >>
\* 6k1/8/8/8/8/8/8/R3K3
LoneKingRows ==
    << <<" ", " ", " ", " ", " ", " ", "k", " ">>,
       <<" ", " ", " ", " ", " ", " ", " ", " ">>,
       <<" ", " ", " ", " ", " ", " ", " ", " ">>,
       <<" ", " ", " ", " ", " ", " ", " ", " ">>,
       <<" ", " ", " ", " ", " ", " ", " ", " ">>,
       <<" ", " ", " ", " ", " ", " ", " ", " ">>,
       <<" ", " ", " ", " ", " ", " ", " ", " ">>,
       <<"R", " ", " ", " ", "K", " ", " ", " ">> >>
\* 2k5/8/8/8/8/8/7R/R3K2R
RookReplacedRows ==
    << <<" ", " ", "k", " ", " ", " ", " ", " ">>,
       <<" ", " ", " ", " ", " ", " ", " ", " ">>,
       <<" ", " ", " ", " ", " ", " ", " ", " ">>,
       <<" ", " ", " ", " ", " ", " ", " ", " ">>,
       <<" ", " ", " ", " ", " ", " ", " ", " ">>,
       <<" ", " ", " ", " ", " ", " ", " ", " ">>,
       <<" ", " ", " ", " ", " ", " ", " ", "R">>,
       <<"R", " ", " ", " ", "K", " ", " ", "R">> >>

\* Games: the layout each starts from and, for a game replayed from a score,
\* the moves of the score (an opening, then a cycle repeated); a game with no
\* score is played with every move of the position.
NoScore == [opening |-> <<>>, cycle |-> <<>>]
KnightShuffle == [opening |-> <<>>,
                  cycle |-> << Str4("g", "1", "f", "3"), Str4("g", "8", "f", "6"),
                               Str4("f", "3", "g", "1"), Str4("f", "6", "g", "8") >>]
FoolsMate == [opening |-> << Str4("f", "2", "f", "3"), Str4("e", "7", "e", "5"),
                             Str4("g", "2", "g", "4"), Str4("d", "8", "h", "4") >>,
              cycle |-> <<>>]
KingShuffle == [opening |-> << Str4("e", "2", "e", "4") >>,
                cycle |-> << Str4("g", "8", "h", "8"), Str4("g", "1", "h", "1"),
                             Str4("h", "8", "g", "8"), Str4("h", "1", "g", "1") >>]
\* the knight shuffle with Black to move first
BlackKnightShuffle ==
    [opening |-> <<>>,
     cycle |-> << Str4("g", "8", "f", "6"), Str4("g", "1", "f", "3"),
                  Str4("f", "6", "g", "8"), Str4("f", "3", "g", "1") >>]
\* the king's rook goes to g1 and back, again and again
RookReturns == [opening |-> <<>>,
                cycle |-> << Str4("h", "1", "g", "1"), Str4("g", "8", "h", "8"),
                             Str4("g", "1", "h", "1"), Str4("h", "8", "g", "8") >>]
\* the king goes to e2 and back, again and again
KingReturns == [opening |-> <<>>,
                cycle |-> << Str4("e", "1", "e", "2"), Str4("g", "8", "f", "8"),
                             Str4("e", "2", "e", "1"), Str4("f", "8", "g", "8") >>]
\* the king's rook leaves h1, the other rook comes to h1 from h2, and the
\* first rook clears the way between king and corner
RookReplaced == [opening |-> << Str4("h", "1", "g", "1"), Str4("c", "8", "c", "7"),
                                Str4("h", "2", "h", "1"), Str4("c", "7", "c", "8"),
                                Str4("g", "1", "g", "2"), Str4("c", "8", "c", "7"),
                                Str4("g", "2", "g", "3"), Str4("c", "7", "c", "8") >>,
                 cycle |-> <<>>]

Games ==
    [shuffle |-> [start |-> Position(StartRows, TRUE, TRUE, TRUE, TRUE, TRUE,
                                     SQUARE_INVALID, 0, 1),
                  score |-> KnightShuffle],
     foolsmate |-> [start |-> Position(StartRows, TRUE, TRUE, TRUE, TRUE, TRUE,
                                       SQUARE_INVALID, 0, 1),
                    score |-> FoolsMate],
     ep_real |-> [start |-> Position(EpRealRows, TRUE, FALSE, FALSE, FALSE, FALSE,
                                     SQUARE_INVALID, 0, 1),
                  score |-> KingShuffle],
     ep_unreal |-> [start |-> Position(EpUnrealRows, TRUE, FALSE, FALSE, FALSE, FALSE,
                                       SQUARE_INVALID, 0, 1),
                    score |-> KingShuffle],
     castle |-> [start |-> Position(CastleRows, TRUE, TRUE, TRUE, TRUE, TRUE,
                                    SQUARE_INVALID, 0, 1),
                 score |-> NoScore],
     white_pawns |-> [start |-> Position(WhitePawnRows, TRUE, FALSE, FALSE, FALSE, FALSE,
                                         SQ("d", "6"), 0, 30),
                      score |-> NoScore],
     black_pawns |-> [start |-> Position(BlackPawnRows, FALSE, FALSE, FALSE, FALSE, FALSE,
                                         SQ("d", "3"), 0, 30),
                      score |-> NoScore],
     pin |-> [start |-> Position(PinRows, TRUE, FALSE, FALSE, FALSE, FALSE,
                                 SQUARE_INVALID, 98, 60),
              score |-> NoScore],
     mate |-> [start |-> Position(MateRows, TRUE, FALSE, FALSE, FALSE, FALSE,
                                  SQUARE_INVALID, 99, 70),
               score |-> NoScore],
     san_knights |-> [start |-> Position(SanKnightsRows, TRUE, FALSE, FALSE, FALSE,
                                         FALSE, SQUARE_INVALID, 0, 40),
                      score |-> NoScore],
     san_castle |-> [start |-> Position(SanCastleRows, TRUE, TRUE, TRUE, FALSE, TRUE,
                                        SQUARE_INVALID, 0, 20),
                     score |-> NoScore],
     san_queen |-> [start |-> Position(SanQueenRows, TRUE, FALSE, FALSE, FALSE, FALSE,
                                       SQUARE_INVALID, 0, 50),
                    score |-> NoScore],
     castle_attack |-> [start |-> Position(CastleAttackRows, TRUE, TRUE, TRUE, TRUE,
                                           TRUE, SQUARE_INVALID, 0, 1),
                        score |-> NoScore],
     rook_returns |-> [start |-> Position(RookReturnRows, TRUE, TRUE, TRUE, FALSE,
                                          FALSE, SQUARE_INVALID, 0, 1),
                       score |-> RookReturns],
     king_returns |-> [start |-> Position(RookReturnRows, TRUE, TRUE, TRUE, FALSE,
                                          FALSE, SQUARE_INVALID, 0, 1),
                       score |-> KingReturns],
     rook_replaced |-> [start |-> Position(RookReplacedRows, TRUE, TRUE, TRUE, FALSE,
                                           FALSE, SQUARE_INVALID, 0, 1),
                        score |-> RookReplaced],
     black_shuffle |-> [start |-> Position(StartRows, FALSE, TRUE, TRUE, TRUE, TRUE,
                                           SQUARE_INVALID, 0, 1),
                        score |-> BlackKnightShuffle],
     bare_kings |-> [start |-> Position(BareKingsRows, TRUE, FALSE, FALSE, FALSE,
                                        FALSE, SQUARE_INVALID, 0, 1),
                     score |-> KingReturns],
     lone_king |-> [start |-> Position(LoneKingRows, TRUE, FALSE, FALSE, FALSE,
                                       FALSE, SQUARE_INVALID, 0, 1),
                    score |-> KingReturns]]

\* the games about castling, and the others
CastleGameNames == {"castle_attack", "rook_returns", "king_returns", "rook_replaced"}

\* the games taken up midway, with any full-move counter
MidGameNames == {"shuffle", "black_shuffle", "bare_kings", "lone_king"}

GameNames == DOMAIN Games \ (CastleGameNames \cup (MidGameNames \ {"shuffle"}))

Scored(g) == Games[g].score # NoScore

\* the n-th move of a score (<<>> past its end)
ScoreAt(score, n) ==
    IF n <= Len(score.opening) THEN score.opening[n]
    ELSE IF score.cycle = <<>> THEN <<>>
    ELSE score.cycle[((n - Len(score.opening) - 1) % Len(score.cycle)) + 1]

(***************************************************************************)
(* State.                                                                  *)
(***************************************************************************)
VARIABLES
    squares,            \* the board
    white,              \* side to move
    d,                  \* the current detail record
    detail_stack,       \* the detail records of the moves made
    history,            \* the moves played
    half_move_clock,
    full_move_count,
    game,               \* the game being played (the caller)
    pushed,             \* the caller's moves made with PushMove, not yet undone
    thrown,             \* the last call ended by throwing
    call,               \* the call that threw, "none" when none did
    returned,           \* what the caller's last query of a layout returned
    screen,             \* the Screen object: image[0], image[1], mutex, shutdown
    thread,             \* the display-update thread: its position and images
    owner,              \* the thread that renders and destroys the Screen
    epd                 \* the images pushed to the e-paper display, in order

\* the rules object and its caller
RulesVars == <<squares, white, d, detail_stack, history, half_move_clock,
               full_move_count, game, pushed, thrown, call, returned>>

\* the Screen, its two threads and the display
ScreenVars == <<screen, thread, owner, epd>>

vars == <<squares, white, d, detail_stack, history, half_move_clock,
          full_move_count, game, pushed, thrown, call, returned,
          screen, thread, owner, epd>>

\* an image with nothing drawn on it
Blank == 0

\* Screen::Screen(): two images, the update thread started
ScreenBuilt ==
    /\ screen = [image |-> <<Blank, Blank>>, mutex |-> "none", shutdown |-> FALSE,
                 published |-> FALSE]
    /\ thread = [pc |-> "start", new_image |-> Blank, old_image |-> Blank,
                 cause |-> "none"]
    /\ owner = [pc |-> "idle", renders |-> 0, view |-> Blank, last |-> Blank,
                found |-> "none"]
    /\ epd = <<>>

\* no query has returned
NoReturn == [call |-> "none"]

\* the ChessRules object
This ==
    [squares |-> squares, white |-> white, d |-> d, detail_stack |-> detail_stack,
     history |-> history, half_move_clock |-> half_move_clock,
     full_move_count |-> full_move_count]

\* the object becomes cr
Becomes(cr) ==
    /\ squares' = cr.squares
    /\ white' = cr.white
    /\ d' = cr.d
    /\ detail_stack' = cr.detail_stack
    /\ history' = cr.history
    /\ half_move_clock' = cr.half_move_clock
    /\ full_move_count' = cr.full_move_count

Init ==
    \E g \in GameNames :
        /\ game = g
        /\ squares = Games[g].start.squares
        /\ white = Games[g].start.white
        /\ d = Games[g].start.d
        /\ detail_stack = Games[g].start.detail_stack
        /\ history = Games[g].start.history
        /\ half_move_clock = Games[g].start.half_move_clock
        /\ full_move_count = Games[g].start.full_move_count
        /\ pushed = <<>>
        /\ thrown = FALSE
        /\ call = "none"
        /\ returned = NoReturn
        /\ ScreenBuilt

\* the coordinate strings the caller submits: the next move of the score, or
\* every generated move; each also with a promotion letter added or dropped,
\* and a string that names no move
Wanted(cr) ==
    IF Scored(game)
    THEN {ScoreAt(Games[game].score, Len(cr.history) + 1)} \ {<<>>}
    ELSE {move_uci(m) : m \in SeqToSet(GenMoveList(cr))}

InputsFor(wanted) ==
    wanted \cup {IF Len(str) = 5 THEN SubSeq(str, 1, 4) ELSE Append(str, "q") :
                    str \in wanted}
           \cup {Str4("a", "1", "a", "1")}

Inputs(cr) == InputsFor(Wanted(cr))

\* the call returns or throws: the object is as the call leaves it
Returns(r, name) ==
    /\ Becomes(r.cr)
    /\ thrown' = r.thrown
    /\ call' = IF r.thrown THEN name ELSE "none"

PlyBound == IF Scored(game) THEN MaxGame ELSE MaxPlies

\* play_uci_move(str)
PlayUciMove ==
    /\ ~thrown
    /\ pushed = <<>>
    /\ Len(history) < PlyBound
    /\ \E str \in Inputs(This) : Returns(play_uci_move(This, str), "play_uci_move")
    /\ UNCHANGED <<game, pushed, returned>>
    /\ UNCHANGED ScreenVars

\* the strings in natural notation the caller submits for the moves it wants:
\* the destination alone (with the promotion letter), the piece letter and
\* the destination, the two files of a pawn capture (also with "ep"), the
\* coordinates, the castling text; and strings that name no move
Upper(piece) ==
    CASE piece \in {"K", "k"} -> "K" [] piece \in {"Q", "q"} -> "Q"
      [] piece \in {"R", "r"} -> "R" [] piece \in {"B", "b"} -> "B"
      [] piece \in {"N", "n"} -> "N" [] OTHER -> "P"

SanForms(cr, str) ==
    LET piece == cr.squares[SQ(str[1], str[2])]
        letter == IF Len(str) = 5 THEN <<"=", Upper(str[5])>> ELSE <<>>
    IN  IF piece \in {"P", "p"}
        THEN {<<str[3], str[4]>> \o letter, SubSeq(str, 1, 4)}
             \cup (IF str[1] # str[3]
                   THEN {<<str[1], "x", str[3], str[4]>> \o letter,
                         <<str[1], str[3]>>,
                         <<str[1], str[3], "e", "p">>}
                   ELSE {})
        ELSE {<<Upper(piece), str[3], str[4]>>,
              <<Upper(piece), str[1], str[3], str[4]>>}
             \cup (IF piece \in {"K", "k"} /\ str[1] = "e" /\ str[3] = "g"
                   THEN {<<"O", "-", "O">>} ELSE {})
             \cup (IF piece \in {"K", "k"} /\ str[1] = "e" /\ str[3] = "c"
                   THEN {<<"o", "o", "o">>} ELSE {})

SanInputs(cr) ==
    UNION {SanForms(cr, str) : str \in Wanted(cr)}
        \cup {<<>>, <<"K", "e", "5">>, <<"e", "9">>}

\* what may lie behind the characters of the string in the caller's buffer:
\* its end, a letter, or the next move of a score
Behind == {<<>>, <<"Q">>, <<" ", "e", "5">>}

\* play_san_move(natural_in)
PlaySanMove ==
    /\ ~thrown
    /\ pushed = <<>>
    /\ Len(history) < PlyBound
    /\ \E natural_in \in SanInputs(This), behind \in Behind :
          Returns(play_san_move(This, natural_in, behind), "play_san_move")
    /\ UNCHANGED <<game, pushed, returned>>
    /\ UNCHANGED ScreenVars

\* the caller handles the exception
Catch ==
    /\ thrown
    /\ thrown' = FALSE
    /\ call' = "none"
    /\ UNCHANGED <<squares, white, d, detail_stack, history, half_move_clock,
                   full_move_count, game, pushed, returned>>
    /\ UNCHANGED ScreenVars

\* the caller makes a generated move with PushMove
PushMoveCall ==
    /\ ~thrown
    /\ Len(pushed) < MaxPush
    /\ Len(history) + Len(pushed) < MaxPlies
    /\ \E m \in SeqToSet(GenMoveList(This)) :
          /\ Becomes(PushMove(This, m))
          /\ pushed' = Append(pushed, m)
    /\ UNCHANGED <<game, thrown, call, returned>>
    /\ UNCHANGED ScreenVars

\* the caller undoes its last PushMove with PopMove
PopMoveCall ==
    /\ ~thrown
    /\ pushed # <<>>
    /\ Becomes(PopMove(This, pushed[Len(pushed)]))
    /\ pushed' = SubSeq(pushed, 1, Len(pushed) - 1)
    /\ UNCHANGED <<game, thrown, call, returned>>
    /\ UNCHANGED ScreenVars

Next == PlayUciMove \/ PlaySanMove \/ Catch \/ PushMoveCall \/ PopMoveCall

Spec == Init /\ [][Next]_vars

(***************************************************************************)
(* The games in which moves are written and read in natural notation: few  *)
(* men, with moves that need each form of the notation.                    *)
(***************************************************************************)
SanGameNames == {"san_knights", "san_castle", "san_queen", "white_pawns", "black_pawns"}

InitSan ==
    \E g \in SanGameNames :
        /\ game = g
        /\ squares = Games[g].start.squares
        /\ white = Games[g].start.white
        /\ d = Games[g].start.d
        /\ detail_stack = Games[g].start.detail_stack
        /\ history = Games[g].start.history
        /\ half_move_clock = Games[g].start.half_move_clock
        /\ full_move_count = Games[g].start.full_move_count
        /\ pushed = <<>>
        /\ thrown = FALSE
        /\ call = "none"
        /\ returned = NoReturn
        /\ ScreenBuilt

SpecSan == InitSan /\ [][Next]_vars

(***************************************************************************)
(* The games about castling: rooks and a king that leave their squares and *)
(* come back, and men that attack the squares the king would cross.        *)
(***************************************************************************)
InitCastle ==
    \E g \in CastleGameNames :
        /\ game = g
        /\ squares = Games[g].start.squares
        /\ white = Games[g].start.white
        /\ d = Games[g].start.d
        /\ detail_stack = Games[g].start.detail_stack
        /\ history = Games[g].start.history
        /\ half_move_clock = Games[g].start.half_move_clock
        /\ full_move_count = Games[g].start.full_move_count
        /\ pushed = <<>>
        /\ thrown = FALSE
        /\ call = "none"
        /\ returned = NoReturn
        /\ ScreenBuilt

SpecCastle == InitCastle /\ [][Next]_vars

(***************************************************************************)
(* Games taken up midway: the object is given a position with any          *)
(* full-move counter and no history, and the caller may take back a played *)
(* move with PopMove, which leaves the move in the history.                *)
(***************************************************************************)
InitMidGame ==
    \E g \in MidGameNames, count \in 0..MaxStartCount :
        /\ game = g
        /\ squares = Games[g].start.squares
        /\ white = Games[g].start.white
        /\ d = Games[g].start.d
        /\ detail_stack = <<>>
        /\ history = <<>>
        /\ half_move_clock = 0
        /\ full_move_count = count
        /\ pushed = <<>>
        /\ thrown = FALSE
        /\ call = "none"
        /\ returned = NoReturn
        /\ ScreenBuilt

\* the caller undoes the last played move with PopMove
PopPlayedCall ==
    /\ ~thrown
    /\ pushed = <<>>
    /\ history # <<>>
    /\ Len(detail_stack) = Len(history)
    /\ Becomes(PopMove(This, history[Len(history)]))
    /\ UNCHANGED <<game, pushed, thrown, call, returned>>
    /\ UNCHANGED ScreenVars

NextMidGame == Next \/ PopPlayedCall

SpecMidGame == InitMidGame /\ [][NextMidGame]_vars

(***************************************************************************)
(* A caller that sets up layouts and asks whether they are legal or drawn. *)
(***************************************************************************)
\* 4k3/8/8/8/8/8/8/4K3
KingsRows ==
    << <<" ", " ", " ", " ", "k", " ", " ", " ">>,
       <<" ", " ", " ", " ", " ", " ", " ", " ">>,
       <<" ", " ", " ", " ", " ", " ", " ", " ">>,
       <<" ", " ", " ", " ", " ", " ", " ", " ">>,
       <<" ", " ", " ", " ", " ", " ", " ", " ">>,
       <<" ", " ", " ", " ", " ", " ", " ", " ">>,
       <<" ", " ", " ", " ", " ", " ", " ", " ">>,
       <<" ", " ", " ", " ", "K", " ", " ", " ">> >>

\* the layouts the caller starts from, the squares it writes and the men it
\* writes there
LayoutGames ==
    [kings |-> [start |-> Position(KingsRows, TRUE, FALSE, FALSE, FALSE, FALSE,
                                   SQUARE_INVALID, 0, 1),
                score |-> NoScore],
     full |-> [start |-> Position(StartRows, TRUE, TRUE, TRUE, TRUE, TRUE,
                                  SQUARE_INVALID, 0, 1),
               score |-> NoScore]]

LayoutSquares == {a8, e8, SQ("d", "4"), SQ("d", "2"), SQ("e", "2"), e1, h1}

LayoutMen == {" ", "K", "k", "P", "p", "N", "b", "R"}

\* the squares of the layout the caller has written
Edited ==
    LET start == LayoutGames[game].start.squares
    IN  {sq \in LayoutSquares : squares[sq] # start[sq]}

InitLayout ==
    \E g \in DOMAIN LayoutGames, side \in BOOLEAN :
        /\ game = g
        /\ squares = LayoutGames[g].start.squares
        /\ white = side
        /\ d = LayoutGames[g].start.d
        /\ detail_stack = <<>>
        /\ history = <<>>
        /\ half_move_clock = 0
        /\ full_move_count = 1
        /\ pushed = <<>>
        /\ thrown = FALSE
        /\ call = "none"
        /\ returned = NoReturn
        /\ ScreenBuilt

\* the caller writes a man on a square of the board
SetSquare ==
    /\ \E sq \in {e \in LayoutSquares : Cardinality(Edited \cup {e}) <= MaxEdits} :
          \E p \in LayoutMen \ {squares[sq]} :
              squares' = [squares EXCEPT ![sq] = p]
    /\ returned' = NoReturn
    /\ UNCHANGED <<white, d, detail_stack, history, half_move_clock,
                   full_move_count, game, pushed, thrown, call>>
    /\ UNCHANGED ScreenVars

\* IsInsufficientDraw(white_asks, result)
IsInsufficientDrawCall ==
    /\ \E white_asks \in BOOLEAN :
          returned' = [call |-> "IsInsufficientDraw", white_asks |-> white_asks]
                      @@ IsInsufficientDraw(This, white_asks)
    /\ UNCHANGED <<squares, white, d, detail_stack, history, half_move_clock,
                   full_move_count, game, pushed, thrown, call>>
    /\ UNCHANGED ScreenVars

\* IsLegal(reason)
IsLegalCall ==
    /\ returned' = [call |-> "IsLegal"] @@ IsLegal(This)
    /\ UNCHANGED <<squares, white, d, detail_stack, history, half_move_clock,
                   full_move_count, game, pushed, thrown, call>>
    /\ UNCHANGED ScreenVars

NextLayout == SetSquare \/ IsInsufficientDrawCall \/ IsLegalCall

SpecLayout == InitLayout /\ [][NextLayout]_vars

(***************************************************************************)
(* The Screen (src/unnamed/part_001).  Its owner calls render any number   *)
(* of times and then destroys it; the display-update thread copies the     *)
(* front image under the mutex and pushes it to the display when it has    *)
(* changed.  An image is a number: 0 is the blank image, the others are    *)
(* what the views draw.                                                    *)
(***************************************************************************)
Frames == 0..MaxFrame

\* the image being displayed next, image[0] of the code
Front == screen.image[1]

\* the image rendered before, image[1] of the code
Back == screen.image[2]

\* (a mutant: the mutex is taken whoever holds it)
CanLock_Always(who) == who \in {"owner", "thread"}

\* std::mutex: a thread gets the lock when nobody holds it
CanLock(who) == who \in {"owner", "thread"} /\ screen.mutex = "none"

\* does the update thread read shutdown as set?  The destructor's store and
\* the thread's loads are not ordered by the mutex: a load sees the store
\* once it has been published to the thread
SeesShutdown == screen.shutdown /\ screen.published

\* cond.notify_one(): a thread waiting on the condition is woken, and
\* nothing is kept for a thread that is not waiting
NotifyOne(th) ==
    IF th.pc = "waiting" THEN [th EXCEPT !.pc = "woken", !.cause = "notify"] ELSE th

InitScreen ==
    /\ game = "shuffle"
    /\ squares = Games["shuffle"].start.squares
    /\ white = Games["shuffle"].start.white
    /\ d = Games["shuffle"].start.d
    /\ detail_stack = <<>>
    /\ history = <<>>
    /\ half_move_clock = 0
    /\ full_move_count = 1
    /\ pushed = <<>>
    /\ thrown = FALSE
    /\ call = "none"
    /\ returned = NoReturn
    /\ ScreenBuilt

\* render: lock_guard lock(mutex), with the view that will draw
RenderLock ==
    /\ owner.pc = "idle"
    /\ owner.renders < MaxRenders
    /\ CanLock("owner")
    /\ \E view \in Frames :
          owner' = [owner EXCEPT !.pc = "locked", !.renders = @ + 1, !.view = view]
    /\ screen' = [screen EXCEPT !.mutex = "owner"]
    /\ UNCHANGED <<thread, epd, RulesVars>>

\* render: std::swap(image[0], image[1])
RenderSwap ==
    /\ owner.pc = "locked"
    /\ screen' = [screen EXCEPT !.image = <<Back, Front>>]
    /\ owner' = [owner EXCEPT !.pc = "swapped"]
    /\ UNCHANGED <<thread, epd, RulesVars>>

\* render: context.clear()
RenderClear ==
    /\ owner.pc = "swapped"
    /\ screen' = [screen EXCEPT !.image = <<Blank, Back>>]
    /\ owner' = [owner EXCEPT !.pc = "cleared"]
    /\ UNCHANGED <<thread, epd, RulesVars>>

\* render: view.render(context)
RenderDraw ==
    /\ owner.pc = "cleared"
    /\ screen' = [screen EXCEPT !.image = <<owner.view, Back>>]
    /\ owner' = [owner EXCEPT !.pc = "drawn", !.last = owner.view]
    /\ UNCHANGED <<thread, epd, RulesVars>>

\* render: the lock_guard goes out of scope
RenderUnlock ==
    /\ owner.pc = "drawn"
    /\ screen' = [screen EXCEPT !.mutex = "none"]
    /\ owner' = [owner EXCEPT !.pc = "unlocked"]
    /\ UNCHANGED <<thread, epd, RulesVars>>

\* render: if (*image[0] != *image[1]) cond.notify_one(); found is where the
\* notification has found the update thread
RenderNotify ==
    /\ owner.pc = "unlocked"
    /\ thread' = IF Front # Back THEN NotifyOne(thread) ELSE thread
    /\ owner' = [owner EXCEPT !.pc = "idle",
                              !.found = IF Front # Back THEN thread.pc ELSE "none"]
    /\ UNCHANGED <<screen, epd, RulesVars>>

\* ~Screen: shutdown = true
DestroySet ==
    /\ owner.pc = "idle"
    /\ screen' = [screen EXCEPT !.shutdown = TRUE]
    /\ owner' = [owner EXCEPT !.pc = "set", !.found = thread.pc]
    /\ UNCHANGED <<thread, epd, RulesVars>>

\* ~Screen: cond.notify_one()
DestroyNotify ==
    /\ owner.pc = "set"
    /\ thread' = NotifyOne(thread)
    /\ owner' = [owner EXCEPT !.pc = "join",
                              !.found = IF thread.pc = "waiting" THEN "waiting" ELSE @]
    /\ UNCHANGED <<screen, epd, RulesVars>>

\* ~Screen: thread.join() returns when the update thread has ended
DestroyJoin ==
    /\ owner.pc = "join"
    /\ thread.pc = "done"
    /\ owner' = [owner EXCEPT !.pc = "destroyed"]
    /\ UNCHANGED <<screen, thread, epd, RulesVars>>

\* the store to shutdown reaches the update thread
Publish ==
    /\ screen.shutdown
    /\ ~screen.published
    /\ screen' = [screen EXCEPT !.published = TRUE]
    /\ UNCHANGED <<thread, owner, epd, RulesVars>>

\* update_epd2in9d: the first lock_guard lock(mutex)
FirstLock ==
    /\ thread.pc = "start"
    /\ CanLock("thread")
    /\ screen' = [screen EXCEPT !.mutex = "thread"]
    /\ thread' = [thread EXCEPT !.pc = "first"]
    /\ UNCHANGED <<owner, epd, RulesVars>>

\* update_epd2in9d: memcpy(new_image, image[0]) and the end of the block
FirstCopy ==
    /\ thread.pc = "first"
    /\ thread' = [thread EXCEPT !.pc = "display", !.new_image = Front]
    /\ screen' = [screen EXCEPT !.mutex = "none"]
    /\ UNCHANGED <<owner, epd, RulesVars>>

\* update_epd2in9d: memcpy(old_image, new_image); epd2in9d.display(old_image)
Display ==
    /\ thread.pc = "display"
    /\ thread' = [thread EXCEPT !.pc = "test", !.old_image = thread.new_image]
    /\ epd' = Append(epd, thread.new_image)
    /\ UNCHANGED <<screen, owner, RulesVars>>

\* update_epd2in9d: while (!shutdown)
Test ==
    /\ thread.pc = "test"
    /\ thread' = [thread EXCEPT !.pc = IF SeesShutdown THEN "done" ELSE "lock"]
    /\ UNCHANGED <<screen, owner, epd, RulesVars>>

\* update_epd2in9d: unique_lock lock(mutex)
Lock ==
    /\ thread.pc = "lock"
    /\ CanLock("thread")
    /\ screen' = [screen EXCEPT !.mutex = "thread"]
    /\ thread' = [thread EXCEPT !.pc = "wait"]
    /\ UNCHANGED <<owner, epd, RulesVars>>

\* update_epd2in9d: cond.wait_until(lock, timeout) unlocks the mutex and waits
Wait ==
    /\ thread.pc = "wait"
    /\ screen' = [screen EXCEPT !.mutex = "none"]
    /\ thread' = [thread EXCEPT !.pc = "waiting", !.cause = "none"]
    /\ UNCHANGED <<owner, epd, RulesVars>>

\* (a mutant: the wait has no timeout)
TimedOut_Never ==
    /\ thread.pc = "waiting"
    /\ FALSE
    /\ UNCHANGED vars

\* update_epd2in9d: the timeout of wait_until is reached
TimedOut ==
    /\ thread.pc = "waiting"
    /\ thread' = [thread EXCEPT !.pc = "woken", !.cause = "timeout"]
    /\ UNCHANGED <<screen, owner, epd, RulesVars>>

\* update_epd2in9d: wait_until locks the mutex again and returns
Reacquire ==
    /\ thread.pc = "woken"
    /\ CanLock("thread")
    /\ screen' = [screen EXCEPT !.mutex = "thread"]
    /\ thread' = [thread EXCEPT !.pc = "check"]
    /\ UNCHANGED <<owner, epd, RulesVars>>

\* update_epd2in9d: if (shutdown) break; the unique_lock goes out of scope
Check ==
    /\ thread.pc = "check"
    /\ IF SeesShutdown
       THEN /\ thread' = [thread EXCEPT !.pc = "done"]
            /\ screen' = [screen EXCEPT !.mutex = "none"]
       ELSE /\ thread' = [thread EXCEPT !.pc = "copy"]
            /\ UNCHANGED screen
    /\ UNCHANGED <<owner, epd, RulesVars>>

\* update_epd2in9d: memcpy(new_image, image[0]) and the end of the block
Copy ==
    /\ thread.pc = "copy"
    /\ thread' = [thread EXCEPT !.pc = "compare", !.new_image = Front]
    /\ screen' = [screen EXCEPT !.mutex = "none"]
    /\ UNCHANGED <<owner, epd, RulesVars>>

\* update_epd2in9d: dirty = memcmp(new_image, old_image) != 0; continue if not
Compare ==
    /\ thread.pc = "compare"
    /\ thread' = [thread EXCEPT
                     !.pc = IF thread.new_image # thread.old_image THEN "update"
                            ELSE "test"]
    /\ UNCHANGED <<screen, owner, epd, RulesVars>>

\* update_epd2in9d: memcpy(old_image, new_image); epd2in9d.update(old_image)
Update ==
    /\ thread.pc = "update"
    /\ thread' = [thread EXCEPT !.pc = "test", !.old_image = thread.new_image]
    /\ epd' = Append(epd, thread.new_image)
    /\ UNCHANGED <<screen, owner, RulesVars>>

\* the steps of Screen::render once it has the mutex
RenderSteps == RenderSwap \/ RenderClear \/ RenderDraw \/ RenderUnlock \/ RenderNotify

\* the steps of Screen::~Screen after the first
DestroySteps == DestroyNotify \/ DestroyJoin

\* the steps of Screen::update_epd2in9d
ThreadSteps ==
    \/ FirstLock \/ FirstCopy \/ Display \/ Test \/ Lock \/ Wait \/ TimedOut
    \/ Reacquire \/ Check \/ Copy \/ Compare \/ Update

NextScreen ==
    \/ RenderLock \/ RenderSwap \/ RenderClear \/ RenderDraw \/ RenderUnlock
    \/ RenderNotify \/ DestroySet \/ DestroyNotify \/ DestroyJoin \/ Publish
    \/ FirstLock \/ FirstCopy \/ Display \/ Test \/ Lock \/ Wait \/ TimedOut
    \/ Reacquire \/ Check \/ Copy \/ Compare \/ Update

\* the update thread is scheduled, its timed wait ends, the store to
\* shutdown reaches it, and a call of render or of the destructor that has
\* begun goes on; the owner need not begin another call
SpecScreenFair ==
    /\ InitScreen
    /\ [][NextScreen]_vars
    /\ WF_vars(ThreadSteps)
    /\ WF_vars(Publish)
    /\ WF_vars(RenderSteps)
    /\ WF_vars(DestroySteps)

(***************************************************************************)
(* Notions the properties are stated with, defined from the rules of chess *)
(* and not from the engine's attack tables or its backward search.         *)
(***************************************************************************)
PositionVars == <<squares, white, d, detail_stack, history, half_move_clock,
                  full_move_count>>

\* the squares holding a given man
SquaresOf(board, piece) == {sq \in Squares64 : board[sq] = piece}

BothKings(cr) ==
    Cardinality(SquaresOf(cr.squares, "K")) = 1
    /\ Cardinality(SquaresOf(cr.squares, "k")) = 1

KingOf(cr, is_white) ==
    CHOOSE sq \in Squares64 : cr.squares[sq] = (IF is_white THEN "K" ELSE "k")

\* the side to move has a generated move that lands on sq
Capturable(cr, sq) == \E m \in SeqToSet(GenMoveList(cr)) : m.dst = sq

\* the king of the side to move could be taken if it were the other side's move
InCheck(cr) == Capturable([cr EXCEPT !.white = ~cr.white], KingOf(cr, cr.white))

\* both kings stand on the board and the side not to move is not in check
LegalPosition(cr) == BothKings(cr) /\ ~Capturable(cr, KingOf(cr, ~cr.white))

\* the positions before each move of a played history
RECURSIVE ReplayFrom(_, _, _)
ReplayFrom(cr, hist, i) ==
    IF i > Len(hist) THEN <<>>
    ELSE <<cr>> \o ReplayFrom(PlayMove(cr, hist[i]), hist, i + 1)

Earlier == ReplayFrom(Games[game].start, history, 1)

\* a pawn of the side to move stands beside the pawn that passed over ep
EpCapturable(cr) ==
    LET ep == cr.d.enpassant_target
    IN  /\ ep # SQUARE_INVALID
        /\ \E sq \in Squares64 :
              /\ cr.squares[sq] = (IF cr.white THEN "P" ELSE "p")
              /\ Row(sq) = Row(ep) + (IF cr.white THEN 1 ELSE -1)
              /\ Col(sq) - Col(ep) \in {-1, 1}

EffectiveEp(cr) == IF EpCapturable(cr) THEN cr.d.enpassant_target ELSE SQUARE_INVALID

EffectiveCastling(cr) ==
    LET b == cr.squares
    IN  [wking |-> b[e1] = "K" /\ b[h1] = "R" /\ cr.d.wking,
         wqueen |-> b[e1] = "K" /\ b[a1] = "R" /\ cr.d.wqueen,
         bking |-> b[e8] = "k" /\ b[h8] = "r" /\ cr.d.bking,
         bqueen |-> b[e8] = "k" /\ b[a8] = "r" /\ cr.d.bqueen]

\* same side to move, same board and king squares
RawMatch(p, q) ==
    /\ p.white = q.white
    /\ p.squares = q.squares
    /\ p.d.wking_square = q.d.wking_square
    /\ p.d.bking_square = q.d.bking_square

SamePosition(p, q) ==
    /\ RawMatch(p, q)
    /\ EffectiveEp(p) = EffectiveEp(q)
    /\ EffectiveCastling(p) = EffectiveCastling(q)

\* was the i-th played move neither a pawn move nor a capture, one flag for
\* each move of the history
QuietMoves ==
    LET earlier == Earlier
    IN  [i \in 1..Len(history) |->
            earlier[i].squares[history[i].src] \notin {"P", "p"}
            /\ history[i].capture = " "]

\* the number of quiet moves at the end of the history
TrailingQuietOf(quiet) ==
    LET loud == {i \in DOMAIN quiet : ~quiet[i]}
    IN  IF loud = {} THEN Len(history)
        ELSE Len(history) - (CHOOSE i \in loud : \A k \in loud : k <= i)

Last(seq) == seq[Len(seq)]

\* the position the played history has led to, whatever has been made on top
\* of it with PushMove
Played ==
    IF history = <<>> THEN Games[game].start
    ELSE PlayMove(Last(Earlier), Last(history))

(***************************************************************************)
(* Properties.                                                             *)
(***************************************************************************)

\* C1: in every reachable position, PushMove followed by PopMove of any
\* generated move (whatever its special tag) leaves the board, the side to
\* move, the detail record and the detail stack (and the rest of the object)
\* exactly as they were.
C1_ApplyUndoRoundTrip ==
    \A m \in SeqToSet(GenMoveList(This)) : PopMove(PushMove(This, m), m) = This

\* an en passant capture has been made with PushMove from a position that also
\* generates promotions with and without capture, a double advance and a king
\* move, and undoing it gives the position back
C1_Witness ==
    /\ Len(pushed) = 1
    /\ pushed[1].special = "SPECIAL_WEN_PASSANT"
    /\ squares[SOUTH(pushed[1].dst)] = " "
    /\ LET before == PopMove(This, pushed[1])
           tags == {m.special : m \in SeqToSet(GenMoveList(before))}
       IN  /\ before = Games[game].start
           /\ Promotions \cup {"NOT_SPECIAL", "SPECIAL_KING_MOVE",
                               "SPECIAL_WPAWN_2SQUARES"} \subseteq tags
           /\ \E m \in SeqToSet(GenMoveList(before)) :
                 is_promotion(m) /\ m.capture = "r"

\* C2: where the side to move has its king, a generated move is in the legal
\* list if and only if, after it is made, the king of the side that moved
\* cannot be taken by the opponent; the legal list holds generated moves only.
C2_LegalFilter ==
    Cardinality(SquaresOf(squares, IF white THEN "K" ELSE "k")) = 1 =>
        LET gen == SeqToSet(GenMoveList(This))
            legal == SeqToSet(GenLegalMoveList(This).moves)
        IN  /\ legal \subseteq gen
            /\ \A m \in gen :
                  LET after == PushMove(This, m)
                  IN  m \in legal <=> ~Capturable(after, KingOf(after, white))

\* a position in which some generated move is legal and another is not
C2_Witness ==
    /\ BothKings(This)
    /\ \E m \in SeqToSet(GenMoveList(This)) :
          m \notin SeqToSet(GenLegalMoveList(This).moves)
    /\ GenLegalMoveList(This).moves # <<>>

\* C3: a call of play_uci_move or play_san_move that throws leaves the board,
\* the side to move, the detail record, the detail stack, the history and the
\* two counters as they were; a call that returns has played one legal move
\* of the position with PlayMove.
C3_RejectedMoveLeavesPosition ==
    [][(~thrown /\ pushed = <<>> /\ pushed' = <<>>) =>
          /\ thrown' => UNCHANGED PositionVars
          /\ (~thrown' /\ history' # history) =>
                /\ Len(history') = Len(history) + 1
                /\ Last(history') \in SeqToSet(GenLegalMoveList(This).moves)
                /\ Becomes(PlayMove(This, Last(history')))
      ]_vars

\* play_san_move has thrown in a position that has legal moves, after a move
\* was played
C3_Witness ==
    /\ thrown
    /\ call = "play_san_move"
    /\ history # <<>>
    /\ GenLegalMoveList(This).moves # <<>>

\* play_uci_move has thrown
C3_WitnessUci ==
    /\ thrown
    /\ call = "play_uci_move"
    /\ GenLegalMoveList(This).moves # <<>>

C5_KingSquaresHoldKings ==
    squares[d.wking_square] = "K" /\ squares[d.bking_square] = "k"

\* C5 (amended): the stored king squares hold the two kings as long as no move
\* made with PushMove and not yet undone has captured a king; a generated
\* move that takes the king (after a move that left it attacked) removes the
\* king from the board while the stored square stays.
C5_KingSquaresUnlessKingTaken ==
    (\A i \in 1..Len(pushed) : pushed[i].capture \notin {"K", "k"}) =>
        squares[d.wking_square] = "K" /\ squares[d.bking_square] = "k"

\* castling has been made and undone moves lie behind: the king stands on its
\* castled square, which is the stored one
C5_Witness ==
    /\ \E m \in SeqToSet(history) \cup SeqToSet(pushed) : m.special \in Castlings
    /\ squares[e1] # "K"
    /\ squares[d.wking_square] = "K"
    /\ squares[d.bking_square] = "k"

\* C6: in a legal position Evaluate reports a terminal kind exactly when the
\* side to move has no legal move: the checkmate of that side when its king
\* can be taken, its stalemate otherwise; after the fool's mate White is
\* checkmated and has no legal move.
C6_TerminalDetection ==
    /\ LegalPosition(This) =>
          LET e == EvaluateTerminal(This)
              legal == GenLegalMoveList(This).moves
          IN  /\ e.okay
              /\ e.score_terminal # "NOT_TERMINAL" <=> legal = <<>>
              /\ legal = <<>> =>
                    e.score_terminal =
                        IF InCheck(This)
                        THEN (IF white THEN "TERMINAL_WCHECKMATE"
                                       ELSE "TERMINAL_BCHECKMATE")
                        ELSE (IF white THEN "TERMINAL_WSTALEMATE"
                                       ELSE "TERMINAL_BSTALEMATE")
    /\ (game = "foolsmate" /\ Len(history) = 4 /\ pushed = <<>>) =>
          /\ EvaluateTerminal(This).score_terminal = "TERMINAL_WCHECKMATE"
          /\ GenLegalMoveList(This).moves = <<>>

\* the fool's mate has been played to its end
C6_Witness ==
    /\ game = "foolsmate"
    /\ Len(history) = 4
    /\ pushed = <<>>
    /\ LegalPosition(This)
    /\ InCheck(This)

\* Black is stalemated
C6_WitnessStalemate ==
    /\ LegalPosition(This)
    /\ ~white
    /\ ~InCheck(This)
    /\ EvaluateTerminal(This).score_terminal = "TERMINAL_BSTALEMATE"

\* the standard starting position, whatever the counters
IsStart ==
    /\ squares = BoardOf(StartRows)
    /\ white
    /\ d = Detail(BoardOf(StartRows), TRUE, TRUE, TRUE, TRUE, SQUARE_INVALID)

\* C7: in the standard starting position GenLegalMoveList returns exactly 20
\* moves: 8 single pawn advances tagged NOT_SPECIAL, 8 double pawn advances
\* tagged SPECIAL_WPAWN_2SQUARES and 4 knight moves.
C7_TwentyMoves ==
    IsStart =>
        LET legal == GenLegalMoveList(This).moves
            set == SeqToSet(legal)
            pawn == {m \in set : squares[m.src] = "P"}
            single == {m \in pawn : m.dst = NORTH(m.src)}
            double == {m \in pawn : m.dst = NORTH(NORTH(m.src))}
            knight == {m \in set : squares[m.src] = "N"}
        IN  /\ Len(legal) = 20
            /\ Cardinality(set) = 20
            /\ Cardinality(pawn) = 16
            /\ Cardinality(single) = 8
            /\ Cardinality(double) = 8
            /\ \A m \in single : m.special = "NOT_SPECIAL"
            /\ \A m \in double : m.special = "SPECIAL_WPAWN_2SQUARES"
            /\ Cardinality(knight) = 4
            /\ \A m \in knight : m.special = "NOT_SPECIAL"
            /\ \A m \in set : m.capture = " "

\* the starting position is reached again after a full knight cycle
C7_Witness == IsStart /\ Len(history) = 4 /\ pushed = <<>>

\* the earlier positions of the played history that are the current position
Repeats ==
    LET earlier == Earlier
    IN  {i \in 1..Len(history) : SamePosition(earlier[i], This)}

\* C8: with no PushMove outstanding, GetRepetitionCount returns 1 plus the
\* number of earlier positions of the played history with the same side to
\* move, board and king squares and the same effective en-passant and castling
\* possibilities; in the game Nf3 Nf6 Ng1 Ng8 repeated it returns 2 after the
\* first cycle and at least 3 after the second, where IsDraw reports the
\* repetition draw.
C8_RepetitionCount ==
    pushed = <<>> =>
        /\ GetRepetitionCount(This).count = 1 + Cardinality(Repeats)
        /\ (game = "shuffle" /\ Len(history) = 4) =>
              GetRepetitionCount(This).count = 2
        /\ (game = "shuffle" /\ Len(history) = 8) =>
              /\ GetRepetitionCount(This).count >= 3
              /\ \A white_asks \in BOOLEAN :
                    /\ IsDraw(This, white_asks).draw
                    /\ IsDraw(This, white_asks).result = "DRAWTYPE_REPITITION"

\* the second knight cycle has been completed and the position has occurred
\* three times
C8_Witness ==
    /\ game = "shuffle"
    /\ Len(history) = 8
    /\ pushed = <<>>
    /\ Cardinality(Repeats) = 2
    /\ IsDraw(This, TRUE).result = "DRAWTYPE_REPITITION"

\* the earlier positions with the current board, side to move and king squares
RawRepeatsOf(earlier) == {i \in 1..Len(history) : RawMatch(earlier[i], This)}

\* C9: among the earlier positions with the same board, side to move, king
\* squares and castling flags, GetRepetitionCount counts those with the same
\* en-passant target and, of those with a different target, exactly the ones
\* where neither target can be captured onto; one real target on either side
\* is not counted.
C9_EffectiveEnPassant ==
    pushed = <<>> =>
        LET earlier == Earlier
            raw == RawRepeatsOf(earlier)
            same == {i \in raw : earlier[i].d.enpassant_target = d.enpassant_target}
            unreal == {i \in raw \ same :
                          ~EpCapturable(earlier[i]) /\ ~EpCapturable(This)}
        IN  (\A i \in raw : eq_castling(earlier[i].d, d)) =>
                GetRepetitionCount(This).count =
                    1 + Cardinality(same) + Cardinality(unreal)

\* after the double advance and one cycle of king moves the board of the
\* position after the double advance is back, now without en-passant target;
\* no pawn could have captured, and the two count as the same position
C9_Witness ==
    /\ game = "ep_unreal"
    /\ Len(history) = 5
    /\ pushed = <<>>
    /\ RawRepeatsOf(Earlier) = {2}
    /\ Earlier[2].d.enpassant_target # d.enpassant_target
    /\ ~EpCapturable(Earlier[2])
    /\ GetRepetitionCount(This).count = 2

\* the same with a pawn in place to capture: not the same position
C9_WitnessReal ==
    /\ game = "ep_real"
    /\ Len(history) = 5
    /\ pushed = <<>>
    /\ RawRepeatsOf(Earlier) = {2}
    /\ EpCapturable(Earlier[2])
    /\ GetRepetitionCount(This).count = 1

\* C10: with no PushMove outstanding, the half-move clock counts the played
\* moves since the last pawn move or capture (on top of the clock the game
\* started with when there was none); after 100 played moves in a row that are
\* neither, the clock is at least 100 and IsDraw reports a draw; right after a
\* played pawn move or capture the clock is 0 and IsDraw does not report the
\* 50-move draw.
C10_FiftyMoveRule ==
    pushed = <<>> =>
        LET quiet == QuietMoves
            trailing == TrailingQuietOf(quiet)
        IN  /\ half_move_clock =
                  IF trailing = Len(history)
                  THEN Games[game].start.half_move_clock + Len(history)
                  ELSE trailing
            /\ trailing >= 100 =>
                  /\ half_move_clock >= 100
                  /\ \A white_asks \in BOOLEAN : IsDraw(This, white_asks).draw
            /\ (history # <<>> /\ ~quiet[Len(history)]) =>
                  /\ half_move_clock = 0
                  /\ \A white_asks \in BOOLEAN :
                        IsDraw(This, white_asks).result # "DRAWTYPE_50MOVE"

\* a hundred knight moves have been played from the starting position
C10_Witness ==
    /\ pushed = <<>>
    /\ Games[game].start.half_move_clock = 0
    /\ Len(history) = 100
    /\ TrailingQuietOf(QuietMoves) = 100
    /\ half_move_clock = 100
    /\ IsDraw(This, TRUE).result = "DRAWTYPE_50MOVE"

\* a capture has been played with the clock at 98
C10_WitnessReset ==
    /\ pushed = <<>>
    /\ Games[game].start.half_move_clock = 98
    /\ Len(history) = 1
    /\ history[1].capture # " "
    /\ half_move_clock = 0

\* the squares that hold a man other than a king, of either colour or of one
NonKings(board) == {sq \in Squares64 : board[sq] \notin {" ", "K", "k"}}

NonKingsOf(board, is_white) ==
    {sq \in NonKings(board) : IsWhite(board[sq]) = is_white}

\* nothing besides the kings, or one man that is a knight or a bishop
BareOrOneMinor(board) ==
    \/ NonKings(board) = {}
    \/ /\ Cardinality(NonKings(board)) = 1
       /\ \A sq \in NonKings(board) : board[sq] \in {"N", "n", "B", "b"}

\* C11: IsInsufficientDraw reports DRAWTYPE_INSUFFICIENT_AUTO exactly when the
\* board holds, besides the kings, nothing or one man that is a knight or a
\* bishop, wherever on the board the men stand (whether or not the scan of
\* the board stops early).
C11_AutomaticDraw ==
    returned.call = "IsInsufficientDraw" =>
        (returned.result = "DRAWTYPE_INSUFFICIENT_AUTO" <=> BareOrOneMinor(squares))

\* asked with a white knight before and a black bishop behind it in the scan
\* (the scan stops early): no automatic draw
C11_Witness ==
    /\ returned.call = "IsInsufficientDraw"
    /\ squares[a8] = "N"
    /\ squares[SQ("d", "4")] = "b"
    /\ returned.result # "DRAWTYPE_INSUFFICIENT_AUTO"

\* asked with king and bishop against king: automatic draw
C11_WitnessMinor ==
    /\ returned.call = "IsInsufficientDraw"
    /\ Cardinality(NonKings(squares)) = 1
    /\ squares[h1] = "b"
    /\ returned.result = "DRAWTYPE_INSUFFICIENT_AUTO"

\* C12: when the position is no automatic draw, IsInsufficientDraw(white_asks)
\* returns true only if the side that does not ask has nothing but its king,
\* returns false to a side that itself has nothing but its king, and returns
\* false to both sides when both have other men.
C12_ClaimableDraw ==
    (returned.call = "IsInsufficientDraw" /\ ~BareOrOneMinor(squares)) =>
        /\ returned.draw =>
              /\ returned.result = "DRAWTYPE_INSUFFICIENT"
              /\ NonKingsOf(squares, ~returned.white_asks) = {}
        /\ NonKingsOf(squares, returned.white_asks) = {} => ~returned.draw
        /\ (NonKingsOf(squares, TRUE) # {} /\ NonKingsOf(squares, FALSE) # {})
              => ~returned.draw

\* white, with a rook against the lone black king, asks and may claim
C12_Witness ==
    /\ returned.call = "IsInsufficientDraw"
    /\ returned.white_asks
    /\ returned.draw
    /\ returned.result = "DRAWTYPE_INSUFFICIENT"
    /\ \E sq \in Squares64 : squares[sq] = "R"

\* black, with the lone king against a rook, asks and is refused
C12_WitnessRefused ==
    /\ returned.call = "IsInsufficientDraw"
    /\ ~returned.white_asks
    /\ ~returned.draw
    /\ NonKingsOf(squares, FALSE) = {}
    /\ \E sq \in Squares64 : squares[sq] = "R"

\* the number of men of one colour, kings and pawns included
MenCount(board, is_white) ==
    Cardinality({sq \in Squares64 : board[sq] # " " /\ IsWhite(board[sq]) = is_white})

\* what makes a layout illegal, by the rules of the game: not one king each,
\* the side to move can take a king of the other side, more than 16 men or 8
\* pawns of a colour, a pawn on the first or last rank
IllegalLayout(cr) ==
    \/ Cardinality(SquaresOf(cr.squares, "K")) # 1
    \/ Cardinality(SquaresOf(cr.squares, "k")) # 1
    \/ \E sq \in SquaresOf(cr.squares, IF cr.white THEN "k" ELSE "K") : Capturable(cr, sq)
    \/ MenCount(cr.squares, TRUE) > 16
    \/ MenCount(cr.squares, FALSE) > 16
    \/ Cardinality(SquaresOf(cr.squares, "P")) > 8
    \/ Cardinality(SquaresOf(cr.squares, "p")) > 8
    \/ \E sq \in Squares64 : cr.squares[sq] \in {"P", "p"} /\ Row(sq) \in {0, 7}

\* C20: IsLegal returns false exactly when a side does not have exactly one
\* king, or the king of the side not to move is attacked, or a side has more
\* than 16 men, or a side has more than 8 pawns, or a pawn stands on rank 1 or
\* rank 8; otherwise it returns true and sets no reason.
C20_IsLegal ==
    returned.call = "IsLegal" =>
        /\ ~returned.legal <=> IllegalLayout(This)
        /\ returned.legal => returned.reason = {}

\* asked of a layout with 17 white men of which 8 are pawns, and otherwise in
\* order: refused
C20_Witness ==
    /\ returned.call = "IsLegal"
    /\ ~returned.legal
    /\ MenCount(squares, TRUE) = 17
    /\ Cardinality(SquaresOf(squares, "P")) = 8
    /\ returned.reason = {"IR_WHITE_TOO_MANY_PIECES"}

\* asked of a layout in order after two squares were written: accepted
C20_WitnessLegal ==
    /\ returned.call = "IsLegal"
    /\ returned.legal
    /\ Cardinality(Edited) = 2

\* the coordinate strings tried in a position: those of every generated move,
\* each also without its promotion letter and with each promotion letter, and
\* a string that names no move
UciProbes(cr) ==
    LET squares4 == {SubSeq(move_uci(m), 1, 4) : m \in SeqToSet(GenMoveList(cr))}
    IN  squares4 \cup {Append(str, c) : str \in squares4, c \in {"q", "r", "b", "n"}}
                 \cup {Str4("a", "1", "a", "1")}

\* the promotion a coordinate string asks for
AskedPromotion(str) ==
    IF Len(str) < 5 THEN "NOT_SPECIAL"
    ELSE CASE str[5] = "q" -> "SPECIAL_PROMOTION_QUEEN"
           [] str[5] = "r" -> "SPECIAL_PROMOTION_ROOK"
           [] str[5] = "b" -> "SPECIAL_PROMOTION_BISHOP"
           [] str[5] = "n" -> "SPECIAL_PROMOTION_KNIGHT"

\* the move agrees with the string in source and destination, and in the
\* promotion when the string asks for one or the move is one
Agrees(m, str) ==
    /\ m.src = SQ(str[1], str[2])
    /\ m.dst = SQ(str[3], str[4])
    /\ (Len(str) = 5 \/ m.special \in Promotions) => m.special = AskedPromotion(str)

\* C13: uci_move(s) returns a move of GenLegalMoveList that agrees with s in
\* source and destination, and in the promotion whenever s carries a
\* promotion letter or the move is a promotion; it throws when no legal move
\* agrees; and never does more than one legal move agree with s.
C13_UciResolution ==
    LET legal == GenLegalMoveList(This)
        moves == SeqToSet(legal.moves)
    IN  \A str \in UciProbes(This) :
            LET agreeing == {m \in moves : Agrees(m, str)}
                r == uci_match(legal, str)
            IN  /\ Cardinality(agreeing) <= 1
                /\ r.thrown <=> agreeing = {}
                /\ ~r.thrown => r.move \in agreeing

\* a position with a legal promotion: the move named without the letter is
\* refused, and so is a letter on a move that is no promotion
C13_Witness ==
    LET legal == GenLegalMoveList(This)
    IN  /\ pushed = <<>>
        /\ \E m \in SeqToSet(legal.moves) :
              /\ m.special \in Promotions
              /\ uci_match(legal, SubSeq(move_uci(m), 1, 4)).thrown
        /\ \E m \in SeqToSet(legal.moves) :
              /\ m.special \notin Promotions
              /\ uci_match(legal, Append(move_uci(m), "q")).thrown

\* C14: in every reachable position, for every legal move m (castling, en
\* passant and the four promotions included), uci_move of the coordinate
\* string of m returns m: the same source, destination, special tag and
\* captured man.
C14_UciRoundTrip ==
    LET legal == GenLegalMoveList(This)
    IN  \A m \in SeqToSet(legal.moves) :
            LET r == uci_match(legal, move_uci(m))
            IN  ~r.thrown /\ r.move = m

\* a position whose legal moves include the four promotions with a capture
\* and an en-passant capture
C14_Witness ==
    LET moves == SeqToSet(GenLegalMoveList(This).moves)
    IN  /\ pushed = <<>>
        /\ \A tag \in Promotions : \E m \in moves : m.special = tag /\ m.capture # " "
        /\ \E m \in moves : m.special \in {"SPECIAL_WEN_PASSANT", "SPECIAL_BEN_PASSANT"}

\* a position whose legal moves include castling on both sides
C14_WitnessCastling ==
    LET moves == SeqToSet(GenLegalMoveList(This).moves)
    IN  /\ pushed = <<>>
        /\ \E m \in moves : m.special \in {"SPECIAL_WK_CASTLING", "SPECIAL_BK_CASTLING"}
        /\ \E m \in moves : m.special \in {"SPECIAL_WQ_CASTLING", "SPECIAL_BQ_CASTLING"}

\* the position reached by a move, and whether the side to move in it is in
\* check with no legal move (checkmated)
After(m) == PushMove(This, m)

Checkmated(cr) == InCheck(cr) /\ GenLegalMoveList(cr).moves = <<>>

\* C15: in every reachable position with both kings, for every legal move m,
\* san_move of the text move_san writes for m returns m: the same source,
\* destination, special tag and captured man.
C15_SanRoundTrip ==
    BothKings(This) =>
        LET info == GenLegalMoveListFlags(This)
        IN  \A m \in SeqToSet(info.moves) :
                LET r == san_move(info.cr, SanWritten(info, m).text, <<>>)
                IN  ~r.thrown /\ r.move = m

\* a position with three knights that can reach the same empty square, one of
\* which is written with its source square and read back as the same move
C15_Witness ==
    /\ game = "san_knights"
    /\ pushed = <<>>
    /\ BothKings(This)
    /\ LET info == GenLegalMoveListFlags(This)
       IN  \E m \in SeqToSet(info.moves) :
              /\ SanWritten(info, m).text = <<"N", "b", "1", "d", "2">>
              /\ san_move(info.cr, <<"N", "b", "1", "d", "2">>, <<>>).move = m

\* a position in which a capturing promotion, an en-passant capture or a
\* castling move is written
C15_WitnessForms ==
    /\ pushed = <<>>
    /\ BothKings(This)
    /\ LET info == GenLegalMoveListFlags(This)
       IN  \E m \in SeqToSet(info.moves) :
              \/ m.special \in Promotions /\ m.capture # " "
                 /\ Len(SanWritten(info, m).text) >= 6
              \/ SanWritten(info, m).text \in {<<"O", "-", "O">>,
                                                <<"O", "-", "O", "-", "O">>}

\* the legal moves of the piece named by the first letter of a text that go
\* to the square named by its last two characters, from the file named in
\* between if a file is named
Candidates(cr, legal, text) ==
    {m \in legal :
        /\ Upper(cr.squares[m.src]) = text[1]
        /\ cr.squares[m.src] \notin {"P", "p"}
        /\ FILE(m.dst) = text[Len(text) - 1]
        /\ RANK(m.dst) = text[Len(text)]
        /\ Len(text) = 4 => FILE(m.src) = text[2]}

\* the texts tried: for every legal move of a piece, the piece letter and the
\* destination, and the same with the source file
PieceTexts(cr, legal) ==
    UNION {{<<Upper(cr.squares[m.src]), FILE(m.dst), RANK(m.dst)>>,
            <<Upper(cr.squares[m.src]), FILE(m.src), FILE(m.dst), RANK(m.dst)>>} :
           m \in {l \in legal : cr.squares[l.src] \notin {"P", "p"}}}

\* C16 (as stated): whenever a text, read with the piece letter, source file
\* and destination it supplies, fits more than one legal move of the
\* position, san_move throws instead of returning one of them.
C16_AmbiguousSanFails ==
    BothKings(This) =>
        LET legal == SeqToSet(GenLegalMoveList(This).moves)
        IN  \A text \in PieceTexts(This, legal) :
                Cardinality(Candidates(This, legal, text)) > 1
                    => san_move(This, text, <<>>).thrown

\* C17 (as stated): the text of a pawn move onto the last rank that carries
\* no promotion letter makes san_move throw, and so does a promotion letter
\* on a move that is no promotion.
C17_NoPromotionGuess ==
    BothKings(This) =>
        LET info == GenLegalMoveListFlags(This)
        IN  \A m \in SeqToSet(info.moves) :
                IF m.special \in Promotions
                THEN san_move(This, SubSeq(SanPawnMove(m), 1, Len(SanPawnMove(m)) - 2),
                              <<>>).thrown
                ELSE m.special \notin Castlings =>
                        san_move(This, SanAlgorithms(info.moves, squares, m)
                                       \o <<"=", "Q">>, <<>>).thrown

\* a text without its check or mate suffix
Unsuffixed(text) ==
    IF text # <<>> /\ text[Len(text)] \in {"+", "#"}
    THEN SubSeq(text, 1, Len(text) - 1) ELSE text

\* the four forms of a piece move: piece and destination, with the source
\* file, with the source rank, with the source square
PieceForm(cr, m, k) ==
    <<Upper(cr.squares[m.src])>>
    \o (IF k \in {2, 4} THEN <<FILE(m.src)>> ELSE <<>>)
    \o (IF k \in {3, 4} THEN <<RANK(m.src)>> ELSE <<>>)
    \o (IF m.capture # " " THEN <<"x">> ELSE <<>>)
    \o <<FILE(m.dst), RANK(m.dst)>>

\* C18: in every reachable position with both kings, move_san writes
\* different texts for different legal moves, and for a move of a piece
\* (castling aside) it writes the first of the four forms that no other legal
\* move of the position also produces.
C18_SanUnambiguous ==
    BothKings(This) =>
        LET info == GenLegalMoveListFlags(This)
            legal == SeqToSet(info.moves)
            text == [m \in legal |-> SanWritten(info, m).text] @@ <<>>
            form == [m \in legal |-> <<PieceForm(This, m, 1), PieceForm(This, m, 2),
                                        PieceForm(This, m, 3), PieceForm(This, m, 4)>>]
                    @@ <<>>
        IN  /\ \A m1, m2 \in legal : m1 # m2 => text[m1] # text[m2]
            /\ \A m \in legal :
                  (squares[m.src] \notin {"P", "p"} /\ m.special \notin Castlings) =>
                      LET alone == {k \in 1..4 : \A other \in legal \ {m} :
                                       form[other][k] # form[m][k]}
                      IN  /\ alone # {}
                          /\ Unsuffixed(text[m]) =
                                form[m][CHOOSE k \in alone : \A j \in alone : k <= j]

\* three knights can take on the same square: one is written with its source
\* square, one with its rank, one with its file
C18_Witness ==
    /\ pushed = <<>>
    /\ BothKings(This)
    /\ LET info == GenLegalMoveListFlags(This)
           texts == {Unsuffixed(SanWritten(info, m).text) : m \in SeqToSet(info.moves)}
       IN  {<<"N", "b", "1", "x", "d", "2">>, <<"N", "3", "x", "d", "2">>,
            <<"N", "f", "x", "d", "2">>} \subseteq texts

\* C19: in every legal position, the text move_san writes for a legal move m
\* ends with '#' exactly when the side to move after m is checkmated, with
\* '+' exactly when it is in check and not checkmated, and with neither
\* otherwise; the check, mate and stalemate vectors of GenLegalMoveList are as
\* long as the move list and no move has two of the flags.
C19_CheckSuffix ==
    LegalPosition(This) =>
        LET info == GenLegalMoveListFlags(This)
        IN  /\ Len(info.check) = Len(info.moves)
            /\ Len(info.mate) = Len(info.moves)
            /\ Len(info.stalemate) = Len(info.moves)
            /\ \A i \in 1..Len(info.moves) :
                  /\ ~(info.check[i] /\ info.mate[i])
                  /\ ~(info.check[i] /\ info.stalemate[i])
                  /\ ~(info.mate[i] /\ info.stalemate[i])
            /\ \A m \in SeqToSet(info.moves) :
                  LET text == SanWritten(info, m).text
                      mated == Checkmated(After(m))
                      checked == InCheck(After(m))
                  IN  /\ Last(text) = "#" <=> mated
                      /\ Last(text) = "+" <=> (checked /\ ~mated)

\* a position with a move that mates, a move that checks and a move that
\* stalemates
C19_Witness ==
    /\ pushed = <<>>
    /\ LegalPosition(This)
    /\ LET info == GenLegalMoveListFlags(This)
       IN  /\ \E i \in 1..Len(info.moves) :
                 info.mate[i] /\ Last(SanWritten(info, info.moves[i]).text) = "#"
           /\ \E i \in 1..Len(info.moves) :
                 info.check[i] /\ Last(SanWritten(info, info.moves[i]).text) = "+"
           /\ \E i \in 1..Len(info.moves) :
                 /\ info.stalemate[i]
                 /\ Last(SanWritten(info, info.moves[i]).text) \notin {"+", "#"}

\* C21: with moves m1..mk made with PushMove on top of the played position,
\* each generated in the position before it, undoing mk..mj+1 with PopMove
\* gives exactly the position that m1..mj lead to, for every j; undoing all of
\* them gives the played position, with the detail stack at its depth and
\* contents.
C21_LifoNesting ==
    pushed # <<>> =>
        LET n == Len(pushed)
            base == Played
            applied[j \in 0..n] ==
                IF j = 0 THEN base ELSE PushMove(applied[j - 1], pushed[j])
            undone[j \in 0..n] ==
                IF j = n THEN This ELSE PopMove(undone[j + 1], pushed[j + 1])
        IN  /\ \A j \in 0..n : undone[j] = applied[j]
            /\ \A j \in 1..n : pushed[j] \in SeqToSet(GenMoveList(applied[j - 1]))
            /\ undone[0].detail_stack = base.detail_stack
            /\ Len(undone[0].detail_stack) = Len(history)

\* castling and then a capture by the other side have been made with
\* PushMove, so that the stack holds two records that differ
C21_Witness ==
    /\ Len(pushed) = 2
    /\ Len(detail_stack) = 2
    /\ detail_stack[1] # detail_stack[2]
    /\ pushed[1].special \in Castlings
    /\ pushed[2].capture # " "
    /\ PopMove(PopMove(This, pushed[2]), pushed[1]) = Played

\* C22: in every reachable position, moves made with PushMove included, each
\* of GenLegalMoveList (both overloads), is_legal, Evaluate with terminal
\* detection, uci_move, san_move and move_san returns or throws with the
\* board, the side to move, the detail record, the detail stack, the history
\* and the two counters as they were at the call.  (uci_move and move_san are
\* taken from the point where GenLegalMoveList has returned, once for all
\* their arguments; san_move is called with every text in the games without
\* the three rooks, whose positions have the most moves.)
C22_QueriesLeavePosition ==
    LET info == GenLegalMoveListFlags(This)
        legal == GenLegalMoveList(This)
    IN  /\ legal.cr = This
        /\ info.cr = This
        /\ EvaluateTerminal(This).cr = This
        /\ \A m \in SeqToSet(GenMoveList(This)) :
              /\ is_legal(This, m).cr = This
              /\ SanWritten(info, m).cr = This
        /\ \A str \in Inputs(This) : uci_match(legal, str).cr = This
        /\ game # "san_castle" =>
              \A natural_in \in SanInputs(This) :
                  san_move(This, natural_in, <<>>).cr = This

\* a move has been played and another made with PushMove; some generated
\* move is legal and another is not, uci_move and san_move resolve some
\* input and throw on another
C22_Witness ==
    /\ game # "san_castle"
    /\ Len(history) = 1
    /\ Len(pushed) = 1
    /\ \E m \in SeqToSet(GenMoveList(This)) : ~is_legal(This, m).okay
    /\ GenLegalMoveList(This).moves # <<>>
    /\ \E str \in Inputs(This) : ~uci_move(This, str).thrown
    /\ \E str \in Inputs(This) : uci_move(This, str).thrown
    /\ \E natural_in \in SanInputs(This) : ~san_move(This, natural_in, <<>>).thrown
    /\ \E natural_in \in SanInputs(This) : san_move(This, natural_in, <<>>).thrown

\* could the other side take a man of the side to move standing on sq (a
\* knight is put there if the square is empty)
Takeable(cr, sq) ==
    LET man == IF cr.squares[sq] # " " THEN cr.squares[sq]
               ELSE IF cr.white THEN "N" ELSE "n"
    IN  Capturable([cr EXCEPT !.white = ~cr.white,
                              !.squares = [cr.squares EXCEPT ![sq] = man]], sq)

\* the four castlings: the side, the tag, the flag, the squares of king and
\* rook, the squares between them and the squares the king stands on
Wings ==
    { [white |-> TRUE, special |-> "SPECIAL_WK_CASTLING", flag |-> "wking",
       king |-> e1, rook |-> h1, between |-> {f1, g1}, path |-> {e1, f1, g1}, dst |-> g1],
      [white |-> TRUE, special |-> "SPECIAL_WQ_CASTLING", flag |-> "wqueen",
       king |-> e1, rook |-> a1, between |-> {b1, c1, d1}, path |-> {e1, d1, c1}, dst |-> c1],
      [white |-> FALSE, special |-> "SPECIAL_BK_CASTLING", flag |-> "bking",
       king |-> e8, rook |-> h8, between |-> {f8, g8}, path |-> {e8, f8, g8}, dst |-> g8],
      [white |-> FALSE, special |-> "SPECIAL_BQ_CASTLING", flag |-> "bqueen",
       king |-> e8, rook |-> a8, between |-> {b8, c8, d8}, path |-> {e8, d8, c8}, dst |-> c8] }

\* king and rook at home, the flag set and nothing between them
CastlingSetUp(cr, w) ==
    /\ cr.white = w.white
    /\ cr.squares[w.king] = (IF w.white THEN "K" ELSE "k")
    /\ cr.squares[w.rook] = (IF w.white THEN "R" ELSE "r")
    /\ cr.d[w.flag]
    /\ \A sq \in w.between : cr.squares[sq] = " "

\* C23: in every reachable position the castling moves in GenMoveList are
\* exactly those of the side to move for which king and rook stand on their
\* home squares, the flag is set, the squares between them are empty and the
\* king's square, the square it passes and its destination could not be taken
\* on by the other side; an attacked b-file square does not matter.
C23_CastlingPreconditions ==
    LET gen == SeqToSet(GenMoveList(This))
    IN  {m \in gen : m.special \in Castlings}
            = {Move(w.king, w.dst, w.special, " ") :
                  w \in {x \in Wings : /\ CastlingSetUp(This, x)
                                       /\ \A sq \in x.path : ~Takeable(This, sq)}}

\* White may castle on the queen's side although b1 is attacked, and may not
\* on the king's side, where everything is in place but f1 alone is attacked
C23_Witness ==
    /\ white
    /\ \A w \in {x \in Wings : x.white} : CastlingSetUp(This, w)
    /\ Takeable(This, b1)
    /\ Takeable(This, f1) /\ ~Takeable(This, e1) /\ ~Takeable(This, g1)
    /\ {m.special : m \in SeqToSet(GenMoveList(This))} \cap Castlings
          = {"SPECIAL_WQ_CASTLING"}

\* Black is in check with everything else in place and may not castle
C23_WitnessCheck ==
    /\ ~white
    /\ \E w \in Wings : /\ CastlingSetUp(This, w)
                         /\ Takeable(This, e8)
                         /\ \A sq \in w.path \ {e8} : ~Takeable(This, sq)
    /\ {m.special : m \in SeqToSet(GenMoveList(This))} \cap Castlings = {}

\* a played move has left from or arrived on the square
Touched(sq) == \E i \in 1..Len(history) : history[i].src = sq \/ history[i].dst = sq

\* C24: PushMove of a generated move clears exactly the castling flags that
\* belong to its destination square (a1, e1, h1, a8, e8, h8), whatever square
\* it leaves; and after any played moves a castling move is generated only if
\* king and rook of that wing stood at home at the start and no played move
\* has left from or arrived on either of the two squares, that is neither has
\* moved, the rook was not captured and no other man came to stand there.
C24_CastlingRights ==
    LET gen == SeqToSet(GenMoveList(This))
    IN  /\ \A m \in gen :
              LET after == PushMove(This, m).d
              IN  /\ after.wking = (d.wking /\ m.dst \notin {e1, h1})
                  /\ after.wqueen = (d.wqueen /\ m.dst \notin {e1, a1})
                  /\ after.bking = (d.bking /\ m.dst \notin {e8, h8})
                  /\ after.bqueen = (d.bqueen /\ m.dst \notin {e8, a8})
        /\ pushed = <<>> =>
              \A w \in Wings :
                  (\E m \in gen : m.special = w.special) =>
                      /\ CastlingSetUp([Games[game].start EXCEPT !.white = w.white], w)
                      /\ ~Touched(w.king)
                      /\ ~Touched(w.rook)

\* the rook has gone from h1 to g1, which left the flag set, and come back:
\* king and rook are at home with nothing between them or attacked, and White
\* may castle on the queen's side only
C24_Witness ==
    /\ game = "rook_returns"
    /\ Len(history) = 4
    /\ pushed = <<>>
    /\ Earlier[2].d.wking
    /\ Earlier[2].squares[h1] = " "
    /\ ~d.wking
    /\ squares = Games[game].start.squares
    /\ {m.special : m \in SeqToSet(GenMoveList(This))} \cap Castlings
          = {"SPECIAL_WQ_CASTLING"}
    /\ Castlings \cap {m.special : m \in SeqToSet(GenMoveList(Games[game].start))}
          = {"SPECIAL_WK_CASTLING", "SPECIAL_WQ_CASTLING"}

\* the king has gone to e2 and come back: no castling
C24_WitnessKing ==
    /\ game = "king_returns"
    /\ Len(history) = 4
    /\ pushed = <<>>
    /\ Earlier[2].d.wking /\ Earlier[2].d.wqueen
    /\ squares = Games[game].start.squares
    /\ {m.special : m \in SeqToSet(GenMoveList(This))} \cap Castlings = {}

\* the rook of h1 has left and the rook of h2 stands on h1, with f1 and g1
\* empty: no castling on the king's side
C24_WitnessOtherRook ==
    /\ game = "rook_replaced"
    /\ Len(history) = 6
    /\ pushed = <<>>
    /\ squares[e1] = "K" /\ squares[h1] = "R" /\ squares[SQ("h", "2")] = " "
    /\ squares[f1] = " " /\ squares[g1] = " "
    /\ {m.special : m \in SeqToSet(GenMoveList(This))} \cap Castlings
          = {"SPECIAL_WQ_CASTLING"}

DoubleAdvances == {"SPECIAL_WPAWN_2SQUARES", "SPECIAL_BPAWN_2SQUARES"}

EnPassants == {"SPECIAL_WEN_PASSANT", "SPECIAL_BEN_PASSANT"}

\* the en-passant target a move leaves: the square between source and
\* destination of a double pawn advance, none otherwise
TargetAfter(m) ==
    IF m.special \in DoubleAdvances THEN (m.src + m.dst) \div 2 ELSE SQUARE_INVALID

\* the last move made, by PlayMove or PushMove
LastMade == IF pushed # <<>> THEN Last(pushed) ELSE Last(history)

\* C25: after PushMove of any generated move the en-passant target is the
\* square the pawn passed over if the move is tagged as a double advance (and
\* then it is a pawn going two squares up its file) and none otherwise; so
\* once a move has been made the target is the one the last move left, and an
\* en-passant capture is generated only onto the square passed over by a
\* double advance made as the last move.
C25_EnPassantLifecycle ==
    LET gen == SeqToSet(GenMoveList(This))
    IN  /\ \A m \in gen :
              /\ PushMove(This, m).d.enpassant_target = TargetAfter(m)
              /\ m.special \in DoubleAdvances =>
                    /\ squares[m.src] = (IF white THEN "P" ELSE "p")
                    /\ m.dst = (IF white THEN NORTH(NORTH(m.src)) ELSE SOUTH(SOUTH(m.src)))
        /\ (history # <<>> \/ pushed # <<>>) =>
              /\ d.enpassant_target = TargetAfter(LastMade)
              /\ \A m \in gen :
                    m.special \in EnPassants =>
                        /\ LastMade.special \in DoubleAdvances
                        /\ m.dst = TargetAfter(LastMade)

\* a double advance has just been played and the other side may capture the
\* pawn en passant on the square it passed
C25_Witness ==
    /\ Len(history) = 1
    /\ pushed = <<>>
    /\ history[1].special \in DoubleAdvances
    /\ d.enpassant_target = (history[1].src + history[1].dst) \div 2
    /\ \E m \in SeqToSet(GenMoveList(This)) :
          m.special \in EnPassants /\ m.dst = d.enpassant_target

\* two plies later the pawns stand as they did, the capturing side is to move
\* again, and there is no target and no en-passant capture
C25_WitnessGone ==
    /\ Len(history) = 3
    /\ pushed = <<>>
    /\ history[1].special \in DoubleAdvances
    /\ EpCapturable([This EXCEPT !.d.enpassant_target = TargetAfter(history[1])])
    /\ d.enpassant_target = SQUARE_INVALID
    /\ \A m \in SeqToSet(GenMoveList(This)) : m.special \notin EnPassants

Counters == <<history, half_move_clock, full_move_count>>

\* C26: PushMove of a generated move and the PopMove that undoes it leave the
\* half-move clock, the full-move counter and the history as they are, in
\* every reachable position; a step of the caller that makes or undoes a move
\* with PushMove or PopMove leaves them unchanged, and a step that changes any
\* of them is a PlayMove of one more move.
C26_PushPopCounterFree ==
    /\ [](\A m \in SeqToSet(GenMoveList(This)) :
             LET made == PushMove(This, m)
                 undone == PopMove(made, m)
             IN  /\ made.history = history
                 /\ made.half_move_clock = half_move_clock
                 /\ made.full_move_count = full_move_count
                 /\ undone.history = history
                 /\ undone.half_move_clock = half_move_clock
                 /\ undone.full_move_count = full_move_count)
    /\ [][/\ pushed' # pushed => UNCHANGED Counters
          /\ Counters' # Counters =>
                /\ pushed' = pushed
                /\ Len(history') = Len(history) + 1
                /\ Becomes(PlayMove(This, Last(history')))
         ]_vars

\* after a played move that let the clock run, a capture or a pawn move has
\* been made with PushMove by Black: PlayMove would have reset the clock and
\* counted the move, but clock, counter and history are those of the played
\* position
C26_Witness ==
    /\ Len(history) = 1
    /\ Len(pushed) = 1
    /\ ~Played.white
    /\ pushed[1].capture # " " \/ Played.squares[pushed[1].src] = "p"
    /\ half_move_clock > 0
    /\ half_move_clock = Played.half_move_clock
    /\ full_move_count = Played.full_move_count
    /\ history = Played.history

\* the number of men on a board
Men(board) == Cardinality({sq \in Squares64 : board[sq] # " "})

\* C27: for every generated move m of every reachable position, PlayMove(m)
\* appends m to the history, adds one to the full-move counter exactly when
\* Black makes the move, sets the half-move clock to 0 if the man on the
\* source square before the move is a pawn or the move takes a man off the
\* board (en passant and capturing promotions included) and adds one to it
\* otherwise, and leaves the board, the side to move, the detail record and
\* the detail stack as PushMove(m) does.
C27_PlayMoveBookkeeping ==
    \A m \in SeqToSet(GenMoveList(This)) :
        LET played == PlayMove(This, m)
            made == PushMove(This, m)
        IN  /\ played.history = Append(history, m)
            /\ played.full_move_count = full_move_count + (IF white THEN 0 ELSE 1)
            /\ played.half_move_clock =
                  IF squares[m.src] \in {"P", "p"} \/ Men(made.squares) < Men(squares)
                  THEN 0
                  ELSE half_move_clock + 1
            /\ played.squares = made.squares
            /\ played.white = made.white
            /\ played.d = made.d
            /\ played.detail_stack = made.detail_stack

\* Black is to move and has an en-passant capture, a promotion that
\* captures, a pawn advance and a quiet king move
C27_Witness ==
    /\ ~white
    /\ LET gen == SeqToSet(GenMoveList(This))
       IN  /\ \E m \in gen : m.special = "SPECIAL_BEN_PASSANT"
           /\ \E m \in gen : is_promotion(m) /\ m.capture # " "
           /\ \E m \in gen : squares[m.src] = "p" /\ m.capture = " "
           /\ \E m \in gen : /\ m.special = "SPECIAL_KING_MOVE" /\ m.capture = " "
                              /\ PlayMove(This, m).half_move_clock = half_move_clock + 1
                              /\ PlayMove(This, m).full_move_count = full_move_count + 1

\* the clock is running and a capture by a piece resets it
C27_WitnessReset ==
    /\ half_move_clock > 0
    /\ \E m \in SeqToSet(GenMoveList(This)) :
          /\ squares[m.src] \notin {"P", "p"}
          /\ m.capture # " "
          /\ PlayMove(This, m).half_move_clock = 0

\* C28: in every reachable position with both kings on the board, Evaluate()
\* and Evaluate with terminal detection return "not okay" exactly when the
\* side to move could take the king of the side not to move; a position in
\* which only the side to move is in check is okay.
C28_IllegalIffEnemyKingAttacked ==
    BothKings(This) =>
        LET takes == Capturable(This, KingOf(This, ~white))
        IN  /\ Evaluate(This) = ~takes
            /\ EvaluateTerminal(This).okay = ~takes
            /\ (InCheck(This) /\ ~takes) => Evaluate(This)

\* a move that leaves the mover's king to be taken has been made with
\* PushMove: the position is not okay
C28_Witness ==
    /\ BothKings(This)
    /\ pushed # <<>>
    /\ Capturable(This, KingOf(This, ~white))
    /\ ~InCheck(This)
    /\ ~Evaluate(This)
    /\ ~EvaluateTerminal(This).okay

\* the side to move is in check and the other is not: the position is okay
C28_WitnessCheck ==
    /\ BothKings(This)
    /\ InCheck(This)
    /\ ~Capturable(This, KingOf(This, ~white))
    /\ Evaluate(This)
    /\ EvaluateTerminal(This).okay

\* C29: with no PushMove outstanding, if every earlier position of the played
\* history with the current board, side to move and king squares has the
\* current effective en-passant state, GetRepetitionCount counts, of those
\* positions, exactly the ones in which "king at home, rook at home and flag
\* set" has for each of the four wings the truth value it has now, whether or
\* not the flags themselves are the same.
C29_EffectiveCastling ==
    pushed = <<>> =>
        LET earlier == Earlier
            raw == RawRepeatsOf(earlier)
            same == {i \in raw : EffectiveCastling(earlier[i]) = EffectiveCastling(This)}
        IN  (\A i \in raw : EffectiveEp(earlier[i]) = EffectiveEp(This)) =>
                GetRepetitionCount(This).count = 1 + Cardinality(same)

\* the rook has gone h1-g1-h1 and the board of the start is back with the
\* king's side flag cleared: White could castle there at the start and cannot
\* now, and the two are not counted as the same position
C29_Witness ==
    /\ game = "rook_returns"
    /\ Len(history) = 4
    /\ pushed = <<>>
    /\ RawRepeatsOf(Earlier) = {1}
    /\ Earlier[1].d.wking /\ ~d.wking
    /\ EffectiveCastling(Earlier[1]).wking /\ ~EffectiveCastling(This).wking
    /\ GetRepetitionCount(This).count = 1

\* the rook stands on g1 for the second time: the flag was set the first time
\* and is cleared now, but with the rook away from h1 White could not castle
\* either time, and the two are counted as the same position
C29_WitnessSame ==
    /\ game = "rook_returns"
    /\ Len(history) = 5
    /\ pushed = <<>>
    /\ RawRepeatsOf(Earlier) = {2}
    /\ Earlier[2].d.wking /\ ~d.wking
    /\ EffectiveCastling(Earlier[2]) = EffectiveCastling(This)
    /\ GetRepetitionCount(This).count = 2

\* the positions that occurred after the most recent pawn move or capture of
\* the played history (all of them if there is none): the positions before
\* each of the trailing quiet moves
SinceLoud ==
    LET trailing == TrailingQuietOf(QuietMoves)
    IN  (Len(history) - trailing + 1)..Len(history)

\* C30: with no PushMove outstanding, GetRepetitionCount returns 1 plus the
\* number of positions since the most recent pawn move or capture that are
\* the current position; no position from before that move is the current
\* position, so the count is that of a search over the whole history; and
\* right after a pawn move or a capture has been played it returns 1.
C30_StopsAtIrreversible ==
    pushed = <<>> =>
        LET repeats == Repeats
            since == SinceLoud
            quiet == QuietMoves
            count == GetRepetitionCount(This).count
        IN  /\ count = 1 + Cardinality(repeats \cap since)
            /\ repeats \subseteq since
            /\ (history # <<>> /\ ~quiet[Len(history)]) => count = 1

\* a pawn move or capture lies in the history and the position has recurred
\* since: the search counts the recurrence and stops at the move
C30_Witness ==
    /\ pushed = <<>>
    /\ SinceLoud # 1..Len(history)
    /\ Repeats # {}
    /\ GetRepetitionCount(This).count = 2

\* a capture has just been played after quiet moves
C30_WitnessLoud ==
    /\ pushed = <<>>
    /\ Len(history) >= 2
    /\ Last(history).capture # " "
    /\ QuietMoves[1]
    /\ GetRepetitionCount(This).count = 1

\* the position in which the backward search of GetRepetitionCount ends,
\* before the call restores what it saved
SearchEnd == RepetitionWalk(This, This, NbrHalfMoves(This), 0, 0).cr

\* C31: GetRepetitionCount and IsDraw return with the board, the side to
\* move, the detail record and the detail stack as they were at the call,
\* and with the history and both counters as they were, however many moves
\* the search has undone.
C31_DrawQueriesRestore ==
    /\ GetRepetitionCount(This).cr = This
    /\ \A white_asks \in BOOLEAN : IsDraw(This, white_asks).cr = This

\* the search has undone the whole history: three quiet moves
C31_Witness ==
    /\ Len(history) = 3
    /\ pushed = <<>>
    /\ SinceLoud = 1..3
    /\ SearchEnd.detail_stack = <<>>
    /\ SearchEnd.squares # squares
    /\ GetRepetitionCount(This).cr = This

\* the search has stopped at a pawn move with moves left to undo
C31_WitnessEarly ==
    /\ pushed = <<>>
    /\ SearchEnd.detail_stack # <<>>
    /\ SearchEnd.detail_stack # detail_stack
    /\ SearchEnd.squares # squares
    /\ IsDraw(This, TRUE).cr = This

\* the promotion tags in the order queen, knight, bishop, rook
PromotionOrder ==
    <<"SPECIAL_PROMOTION_QUEEN", "SPECIAL_PROMOTION_KNIGHT",
      "SPECIAL_PROMOTION_BISHOP", "SPECIAL_PROMOTION_ROOK">>

\* does the move take a pawn to the last rank of its colour?
ToLastRank(cr, m) ==
    \/ cr.squares[m.src] = "P" /\ RANK(m.dst) = "8"
    \/ cr.squares[m.src] = "p" /\ RANK(m.dst) = "1"

\* the moves of GenMoveList that take pawns to the last rank, by advance and
\* by capture
LastRankMoves == {m \in SeqToSet(GenMoveList(This)) : ToLastRank(This, m)}

\* C32: in GenMoveList a move carries a promotion tag exactly if it takes a
\* pawn to the last rank; each such move stands in a run of four consecutive
\* moves with its source, destination and captured man, tagged queen,
\* knight, bishop, rook in that order, and the list holds no other move with
\* that source and destination.
C32_PromotionGeneration ==
    LET list == GenMoveList(This)
    IN  \A k \in 1..Len(list) :
            LET m == list[k]
            IN  /\ ToLastRank(This, m) <=> m.special \in Promotions
                /\ m.special \in Promotions =>
                      LET o == CHOOSE j \in 1..4 : PromotionOrder[j] = m.special
                          first == k - o + 1
                      IN  /\ first >= 1
                          /\ first + 3 <= Len(list)
                          /\ \A j \in 1..4 :
                                list[first + j - 1] =
                                    Move(m.src, m.dst, PromotionOrder[j], m.capture)
                          /\ Cardinality({j \in 1..Len(list) :
                                            /\ list[j].src = m.src
                                            /\ list[j].dst = m.dst}) = 4

\* a pawn can reach the last rank both by advancing and by capturing: eight
\* promotion moves are generated
C32_Witness ==
    /\ \E m \in LastRankMoves : m.capture = " "
    /\ \E m \in LastRankMoves : m.capture # " "
    /\ Cardinality(LastRankMoves) = 8

\* a black pawn can reach its last rank
C32_WitnessBlack ==
    /\ ~white
    /\ \E m \in LastRankMoves : squares[m.src] = "p" /\ m.capture # " "

\* the square n rows ahead of a pawn on sq (rank 8 is row 0)
Ahead(piece, sq, n) == IF piece = "P" THEN sq - 8 * n ELSE sq + 8 * n

HomeRank(piece) == IF piece = "P" THEN "2" ELSE "7"

DoubleTag(piece) ==
    IF piece = "P" THEN "SPECIAL_WPAWN_2SQUARES" ELSE "SPECIAL_BPAWN_2SQUARES"

\* the generated moves of pawns that stay on their file
AdvancesOf(list) ==
    {m \in SeqToSet(list) : squares[m.src] \in {"P", "p"} /\ FILE(m.src) = FILE(m.dst)}

\* C33: in GenMoveList every move of a pawn along its file goes one or two
\* squares ahead to an empty square and captures nothing; a one-square
\* advance short of the last rank is tagged NOT_SPECIAL; a two-square advance
\* starts on the home rank, passes over an empty square and carries the
\* double-advance tag of its colour; the double-advance tags are carried by
\* no other move; and each of these advances is generated whenever the
\* squares it needs are empty.
C33_PawnAdvanceTagging ==
    LET list == GenMoveList(This)
        set == SeqToSet(list)
        mine == IF white THEN "P" ELSE "p"
    IN  /\ \A m \in AdvancesOf(list) :
              LET piece == squares[m.src]
              IN  /\ m.capture = " "
                  /\ squares[m.dst] = " "
                  /\ \/ /\ m.dst = Ahead(piece, m.src, 1)
                         /\ m.special \in {"NOT_SPECIAL"} \cup Promotions
                         /\ m.special = "NOT_SPECIAL" <=> ~ToLastRank(This, m)
                      \/ /\ m.dst = Ahead(piece, m.src, 2)
                         /\ RANK(m.src) = HomeRank(piece)
                         /\ squares[Ahead(piece, m.src, 1)] = " "
                         /\ m.special = DoubleTag(piece)
        /\ \A m \in set :
              m.special \in {"SPECIAL_WPAWN_2SQUARES", "SPECIAL_BPAWN_2SQUARES"} =>
                  /\ m \in AdvancesOf(list)
                  /\ m.dst = Ahead(squares[m.src], m.src, 2)
        /\ \A sq \in SquaresOf(squares, mine) :
              /\ (RANK(sq) \notin {"1", "8"} /\ squares[Ahead(mine, sq, 1)] = " ") =>
                    \E m \in set : m.src = sq /\ m.dst = Ahead(mine, sq, 1)
              /\ (/\ RANK(sq) = HomeRank(mine)
                  /\ squares[Ahead(mine, sq, 1)] = " "
                  /\ squares[Ahead(mine, sq, 2)] = " ") =>
                    Move(sq, Ahead(mine, sq, 2), DoubleTag(mine), " ") \in set

\* a pawn on its home rank has the square ahead free and the one behind it
\* occupied: the single advance is generated and the double advance is not
C33_Witness ==
    \E sq \in SquaresOf(squares, IF white THEN "P" ELSE "p") :
        LET piece == squares[sq]
        IN  /\ RANK(sq) = HomeRank(piece)
            /\ squares[Ahead(piece, sq, 1)] = " "
            /\ squares[Ahead(piece, sq, 2)] # " "
            /\ Move(sq, Ahead(piece, sq, 1), "NOT_SPECIAL", " ") \in SeqToSet(GenMoveList(This))
            /\ \A m \in SeqToSet(GenMoveList(This)) :
                  m.src = sq => m.dst # Ahead(piece, sq, 2)

\* a pawn on its home rank is blocked on the square ahead, with the square
\* behind that one free: it has no advance at all
C33_WitnessBlocked ==
    \E sq \in SquaresOf(squares, IF white THEN "P" ELSE "p") :
        LET piece == squares[sq]
        IN  /\ RANK(sq) = HomeRank(piece)
            /\ squares[Ahead(piece, sq, 1)] # " "
            /\ squares[Ahead(piece, sq, 2)] = " "
            /\ AdvancesOf(GenMoveList(This)) \cap {m \in SeqToSet(GenMoveList(This)) : m.src = sq} = {}

\* both advances of a pawn on its home rank are generated
C33_WitnessDouble ==
    \E m \in AdvancesOf(GenMoveList(This)) :
        /\ m.special = DoubleTag(squares[m.src])
        /\ Move(m.src, Ahead(squares[m.src], m.src, 1), "NOT_SPECIAL", " ")
               \in SeqToSet(GenMoveList(This))

\* one step of the straight line from src towards dst, as rows and columns
Toward(a, b) == IF b > a THEN 1 ELSE IF b < a THEN -1 ELSE 0

Distance(a, b) == IF b > a THEN b - a ELSE a - b

\* are the two squares on one row, column or diagonal, as the man moves?
Aligned(piece, src, dst) ==
    LET rows == Distance(Row(src), Row(dst))
        cols == Distance(Col(src), Col(dst))
        straight == (rows = 0) # (cols = 0)
        diagonal == rows = cols /\ rows > 0
    IN  CASE piece \in {"R", "r"} -> straight
          [] piece \in {"B", "b"} -> diagonal
          [] OTHER -> straight \/ diagonal

\* the squares strictly between two aligned squares
PassedOver(src, dst) ==
    LET rows == Distance(Row(src), Row(dst))
        cols == Distance(Col(src), Col(dst))
        n == IF rows > cols THEN rows ELSE cols
        step == 8 * Toward(Row(src), Row(dst)) + Toward(Col(src), Col(dst))
    IN  {src + k * step : k \in 1..(n - 1)}

\* is the man one of the side to move?
OwnMan(piece) == IF white THEN IsWhite(piece) ELSE IsBlack(piece)

\* the square of the pawn that an en-passant capture onto dst takes
BehindTarget(dst) == IF white THEN dst + 8 ELSE dst - 8

\* C34: every move of GenMoveList starts on a square with a man of the side
\* to move and ends on a square without one; a move of a bishop, rook or
\* queen runs along a line of that man over empty squares only; an
\* en-passant move ends on an empty square and its capture field is the enemy
\* pawn, which stands behind that square; the capture field of every other
\* move is what stands on the destination, a blank for an empty square.
C34_GeneratorWellFormed ==
    \A m \in SeqToSet(GenMoveList(This)) :
        /\ OwnMan(squares[m.src])
        /\ ~OwnMan(squares[m.dst])
        /\ squares[m.src] \in {"B", "b", "R", "r", "Q", "q"} =>
              /\ Aligned(squares[m.src], m.src, m.dst)
              /\ \A sq \in PassedOver(m.src, m.dst) : squares[sq] = " "
        /\ IF m.special \in {"SPECIAL_WEN_PASSANT", "SPECIAL_BEN_PASSANT"}
           THEN /\ squares[m.dst] = " "
                /\ m.capture = (IF white THEN "p" ELSE "P")
                /\ squares[BehindTarget(m.dst)] = m.capture
           ELSE /\ m.capture = squares[m.dst]
                /\ m.capture = " " <=> IsEmptySquare(squares[m.dst])

\* a bishop, rook or queen takes an enemy man two or more squares away, with
\* a square of the board behind it on the line, to which it has no move
C34_Witness ==
    \E m \in SeqToSet(GenMoveList(This)) :
        /\ squares[m.src] \in {"B", "b", "R", "r", "Q", "q"}
        /\ m.capture # " "
        /\ PassedOver(m.src, m.dst) # {}
        /\ \E beyond \in Squares64 :
              /\ Aligned(squares[m.src], m.src, beyond)
              /\ m.dst \in PassedOver(m.src, beyond)
              /\ \A n \in SeqToSet(GenMoveList(This)) : ~(n.src = m.src /\ n.dst = beyond)

\* an en-passant capture is generated
C34_WitnessEnPassant ==
    \E m \in SeqToSet(GenMoveList(This)) :
        /\ m.special \in {"SPECIAL_WEN_PASSANT", "SPECIAL_BEN_PASSANT"}
        /\ squares[BehindTarget(m.dst)] \in {"P", "p"}
        /\ history # <<>>

\* C35: GenLegalMoveList(moves, check, mate, stalemate) fills moves with the
\* moves GenLegalMoveList() returns, in the same order, and fills the three
\* other vectors with one entry for each of them.
C35_LegalListsAgree ==
    LET plain == GenLegalMoveList(This)
        info == GenLegalMoveListFlags(This)
    IN  /\ info.moves = plain.moves
        /\ Len(info.check) = Len(plain.moves)
        /\ Len(info.mate) = Len(plain.moves)
        /\ Len(info.stalemate) = Len(plain.moves)

\* some generated moves are legal and some are not
C35_Witness ==
    LET plain == GenLegalMoveList(This)
    IN  /\ plain.moves # <<>>
        /\ Len(plain.moves) < Len(GenMoveList(This))
        /\ GenLegalMoveListFlags(This).moves = plain.moves

\* one of the legal moves gives mate
C35_WitnessMate ==
    LET info == GenLegalMoveListFlags(This)
    IN  /\ \E i \in 1..Len(info.moves) : info.mate[i]
        /\ info.moves = GenLegalMoveList(This).moves

\* the number of moves the backward search of GetRepetitionCount undoes: each
\* PopMove takes one record off the detail stack
Undone == Len(detail_stack) - Len(SearchEnd.detail_stack)

\* the value of (full_move_count - 1) * 2 + (!white ? 1 : 0) as an int
RawHalfMoves == (full_move_count - 1) * 2 + (IF ~white THEN 1 ELSE 0)

\* C36: whatever the full-move counter and the side to move,
\* GetRepetitionCount plans to undo no more moves than the history and the
\* detail stack hold, undoes no more than it plans, so that it reads no
\* history entry below the first and pops no empty detail stack, and with an
\* empty history it returns 1.
C36_SearchNeverUnderflows ==
    /\ NbrHalfMoves(This) <= Len(history)
    /\ NbrHalfMoves(This) <= Len(detail_stack)
    /\ NbrHalfMoves(This) >= 0
    /\ Undone <= NbrHalfMoves(This)
    /\ Undone >= 0
    /\ history = <<>> => GetRepetitionCount(This).count = 1

\* the counter stands at 0, so that the int is negative and converts to a
\* size_t above every length: the history bounds the search, which undoes
\* all of it
C36_Witness ==
    /\ RawHalfMoves < 0
    /\ history # <<>>
    /\ NbrHalfMoves(This) = Len(history)
    /\ Undone = Len(history)

\* a played move has been undone with PopMove: the detail stack is shorter
\* than the history and than what the counter asks for, and bounds the search
C36_WitnessStack ==
    /\ detail_stack # <<>>
    /\ Len(detail_stack) < Len(history)
    /\ Len(detail_stack) < RawHalfMoves
    /\ NbrHalfMoves(This) = Len(detail_stack)
    /\ Undone >= 1

\* a game taken up at move 3 with no history: the counter asks for four or
\* more half moves and none is undone
C36_WitnessEmpty ==
    /\ history = <<>>
    /\ RawHalfMoves >= 4
    /\ NbrHalfMoves(This) = 0
    /\ GetRepetitionCount(This).count = 1

\* the counter bounds the search: it asks for fewer half moves than have
\* been played
C36_WitnessCounter ==
    /\ RawHalfMoves >= 0
    /\ RawHalfMoves < Len(history)
    /\ RawHalfMoves < Len(detail_stack)
    /\ NbrHalfMoves(This) = RawHalfMoves

\* the rules that make the position a draw for the asker, in the order
\* insufficient material, 50 moves, repetition
DrawRules(white_asks) ==
    [insufficient |-> IsInsufficientDraw(This, white_asks).draw,
     fifty |-> half_move_clock >= 100,
     repetition |-> GetRepetitionCount(This).count >= 3]

\* C37: IsDraw(white_asks) returns true exactly if IsInsufficientDraw holds
\* for the asker, or the half-move clock is at least 100, or
\* GetRepetitionCount is at least 3; the type it reports is that of
\* IsInsufficientDraw if that holds, else that of the 50 move rule if the
\* clock is at least 100, else that of the repetition if the count is at
\* least 3, and NOT_DRAW exactly when it returns false.
C37_IsDrawPrecedence ==
    \A white_asks \in BOOLEAN :
        LET rules == DrawRules(white_asks)
            insufficient == IsInsufficientDraw(This, white_asks)
            r == IsDraw(This, white_asks)
        IN  /\ r.draw <=> (rules.insufficient \/ rules.fifty \/ rules.repetition)
            /\ r.result = (IF rules.insufficient THEN insufficient.result
                           ELSE IF rules.fifty THEN "DRAWTYPE_50MOVE"
                           ELSE IF rules.repetition THEN "DRAWTYPE_REPITITION"
                           ELSE "NOT_DRAW")
            /\ rules.insufficient =>
                  insufficient.result \in {"DRAWTYPE_INSUFFICIENT_AUTO",
                                           "DRAWTYPE_INSUFFICIENT"}
            /\ r.result = "NOT_DRAW" <=> ~r.draw

\* all three rules hold at once and the insufficient material is reported
C37_Witness ==
    /\ pushed = <<>>
    /\ DrawRules(TRUE) = [insufficient |-> TRUE, fifty |-> TRUE, repetition |-> TRUE]
    /\ IsDraw(This, TRUE).result = "DRAWTYPE_INSUFFICIENT_AUTO"

\* the 50 move rule and the repetition hold and the 50 move rule is reported
C37_WitnessFifty ==
    /\ pushed = <<>>
    /\ DrawRules(TRUE) = [insufficient |-> FALSE, fifty |-> TRUE, repetition |-> TRUE]
    /\ IsDraw(This, TRUE).result = "DRAWTYPE_50MOVE"

\* the position has occurred three times and one side only can claim the
\* insufficient material: the two askers are told different types
C37_WitnessAsker ==
    /\ pushed = <<>>
    /\ half_move_clock < 100
    /\ IsDraw(This, TRUE).result = "DRAWTYPE_INSUFFICIENT"
    /\ IsDraw(This, FALSE).result = "DRAWTYPE_REPITITION"

\* none of the rules holds
C37_WitnessNone ==
    /\ history # <<>>
    /\ \A white_asks \in BOOLEAN :
          /\ ~IsDraw(This, white_asks).draw
          /\ IsDraw(This, white_asks).result = "NOT_DRAW"

\* C38: the join of the destructor returns only when the update thread has
\* ended, and once the destructor has set shutdown and notified, the update
\* thread ends and the join returns.
C38_ShutdownTerminates ==
    /\ [](owner.pc = "destroyed" => thread.pc = "done")
    /\ (owner.pc = "join") ~> (owner.pc = "destroyed" /\ thread.pc = "done")

\* the destructor has set the flag and notified while the thread was between
\* the test of the loop and the wait; the thread has then waited, the timeout
\* has ended the wait, and the thread has ended
C38_Witness ==
    /\ owner.pc = "destroyed"
    /\ owner.found \in {"lock", "wait"}
    /\ thread.cause = "timeout"
    /\ thread.pc = "done"

\* the image last pushed to the display (-1 before the first)
Shown == IF epd = <<>> THEN -1 ELSE epd[Len(epd)]

\* the positions of the owner inside Screen::render with the mutex held
Rendering == {"locked", "swapped", "cleared", "drawn"}

\* the update thread copies the front image only with the mutex held and no
\* render under way, so that it copies the image last drawn in full
CopiesUnderMutex ==
    [][(thread.pc \in {"first", "copy"} /\ thread'.pc # thread.pc) =>
          /\ screen.mutex = "thread"
          /\ owner.pc \notin Rendering
          /\ thread'.new_image = owner.last]_vars

\* an image is pushed to the display only if it is the image copied and,
\* after the first, differs from the image pushed before
PushesOnlyChanges ==
    [][epd' # epd =>
          /\ epd' = Append(epd, thread.new_image)
          /\ epd # <<>> => thread.new_image # epd[Len(epd)]]_vars

\* C39 (as amended): the update thread copies the front image only while it
\* holds the mutex, never during a render; it pushes an image only when the
\* copy differs from the image last displayed; and if from some time on the
\* owner neither renders nor destroys the Screen, the display ends up showing
\* the image rendered last.
C39_FramesReachDisplay ==
    /\ CopiesUnderMutex
    /\ PushesOnlyChanges
    /\ <>[](owner.pc = "idle") => <>[](Shown = Front)

\* C39 as stated: the same with "no further render follows" alone, so that
\* the owner may destroy the Screen after the last render.
C39_AsStated ==
    /\ CopiesUnderMutex
    /\ PushesOnlyChanges
    /\ <>[](owner.pc \notin Rendering \cup {"unlocked"}) => <>[](Shown = Front)

\* the notification of the last render found the thread in a display update;
\* the timeout has ended the thread's next wait and the image is displayed
C39_Witness ==
    /\ owner.pc = "idle"
    /\ ~screen.shutdown
    /\ owner.found = "update"
    /\ Front # Back
    /\ thread.cause = "timeout"
    /\ Len(epd) >= 3
    /\ Shown = Front

====
